---- MODULE Spec2Model ----
(***************************************************************************)
(* Model of the document-tree algorithms of src/types.ts:                  *)
(*   - autism_module_4: MODULE_4_ANALYZE (issue analyzer) and MODULE_4_FIX *)
(*     (merge engine + repair pipeline) over a WordprocessingML tree;      *)
(*   - main_controller mode 2: GENERATE_IEP (table synthesizer);           *)
(*   - main_controller mode 1: smartFillXML (field filler);                *)
(*   - the mode 1 handlers of the UI: toggleColumn and handleAnalyze with  *)
(*     the ANALYZE file loop of main_controller.                           *)
(* Each subsystem has its own specification (SpecFix, SpecIEP, SpecFill,   *)
(* SpecAnalyze).                                                           *)
(***************************************************************************)
EXTENDS Integers, Sequences, FiniteSets, TLC

VARIABLES
    \* ---- MODULE 4 (autism_module_4) ----
    mod4File,     \* the chosen file: the tree of its main document part
    dom,          \* MODULE_4_FIX: the tree it parsed and mutates (<<>> before)
    mod4Tables,   \* the UI's Mod4TableInfo list (result of MODULE_4_ANALYZE)
    pc,           \* position of the MODULE_4 flow
    tblNodeMap,   \* MODULE_4_FIX: insertion-ordered Map<Element, Mod4TableInfo>
    sortedConfigs,\* MODULE_4_FIX: configs sorted by descending index
    mi,           \* MODULE_4_FIX: position in the merge loop
    ri,           \* MODULE_4_FIX: position in the repair loop
    mod4Out,      \* how the last MODULE_4 call ended: "none" | "error" | "blob"
    \* ---- mode 2 (GENERATE_IEP) ----
    mode2Template,  \* the uploaded template: the text of its main document part
    esdmData,       \* the ESDM levels / domains / goals loaded in the UI
    selections,     \* the UI's Selection list
    smartSplitting, \* the UI's smartSplitting flag
    iepPc,          \* position of the GENERATE_IEP flow
    processedData,  \* GENERATE_IEP: the ProcessedGoal list
    documentXml,    \* GENERATE_IEP: the main part as read from the package
    tableLoc,       \* GENERATE_IEP: found, hasSttColumn and the three indices
    rowsXml,        \* GENERATE_IEP: the rows generated so far
    goalPos,        \* GENERATE_IEP: position in the domain / goal loops
    zipDocument,    \* GENERATE_IEP: word/document.xml of the package in memory
    iepOut,         \* what generateIEP got back from main_controller
    \* ---- mode 1 (smartFillXML) ----
    fillXml,        \* the tree of the template's main document part
    studentInfo,    \* the StudentInfo of the form
    esdmResult,     \* the ESDMResult: percents and percentsOld by level
    selectedLevels, \* the levels chosen for the evaluation
    fillDoc,        \* smartFillXML: the tree it parsed and mutates
    paragraphs,     \* smartFillXML: the static array of the w:p elements
    fillPos,        \* smartFillXML: position in paragraphs.forEach
    fillPc,         \* position of the smartFillXML flow
    fillOut,        \* what smartFillXML returned (<<>> before)
    \* ---- mode 1 (toggleColumn, handleAnalyze) ----
    files,            \* the uploaded files
    selectedColumns,  \* the assessment columns chosen in the UI
    status,           \* the ProcessingStatus
    loadingProgress,  \* the value the progress bar shows
    progressInterval, \* handleAnalyze: whether its interval timer is set
    ingested,         \* ANALYZE: files the loop has gone through
    analyzePc         \* position of the handleAnalyze flow

fixVars == <<mod4File, dom, mod4Tables, pc, tblNodeMap, sortedConfigs, mi, ri, mod4Out>>

iepVars == <<mode2Template, esdmData, selections, smartSplitting, iepPc, processedData,
             documentXml, tableLoc, rowsXml, goalPos, zipDocument, iepOut>>

fillVars == <<fillXml, studentInfo, esdmResult, selectedLevels, fillDoc, paragraphs,
              fillPos, fillPc, fillOut>>

analyzeVars == <<files, selectedColumns, status, loadingProgress, progressInterval,
                 ingested, analyzePc>>

\* the variables of the other subsystems
nonFixVars == <<iepVars, fillVars, analyzeVars>>

nonIepVars == <<fixVars, fillVars, analyzeVars>>

nonFillVars == <<fixVars, iepVars, analyzeVars>>

nonAnalyzeVars == <<fixVars, iepVars, fillVars>>

\* MODULE 4 not in use
FixIdle ==
    /\ mod4File = <<>>
    /\ dom = <<>>
    /\ mod4Tables = <<>>
    /\ pc = "idle"
    /\ tblNodeMap = <<>>
    /\ sortedConfigs = <<>>
    /\ mi = 1
    /\ ri = 1
    /\ mod4Out = "none"

NoTable ==
    [found |-> FALSE, hasSttColumn |-> FALSE, tableStartIndex |-> 0,
     tableEndIndex |-> 0, headerRowEndIndex |-> 0]

NoOutput == [status |-> "none", blob |-> <<>>, filename |-> <<>>]

\* mode 2 not in use
IepIdle ==
    /\ mode2Template = <<>>
    /\ esdmData = <<>>
    /\ selections = <<>>
    /\ smartSplitting = FALSE
    /\ iepPc = "idle"
    /\ processedData = <<>>
    /\ documentXml = <<>>
    /\ tableLoc = NoTable
    /\ rowsXml = <<>>
    /\ goalPos = 1
    /\ zipDocument = <<>>
    /\ iepOut = NoOutput

\* mode 1 not in use
FillIdle ==
    /\ fillXml = <<>>
    /\ studentInfo = <<>>
    /\ esdmResult = <<>>
    /\ selectedLevels = <<>>
    /\ fillDoc = <<>>
    /\ paragraphs = <<>>
    /\ fillPos = 1
    /\ fillPc = "idle"
    /\ fillOut = <<>>

\* the analysis of mode 1 not in use: the initial values of the UI state
AnalyzeIdle ==
    /\ files = <<>>
    /\ selectedColumns = <<1>>
    /\ status = "IDLE"
    /\ loadingProgress = 0
    /\ progressInterval = FALSE
    /\ ingested = 0
    /\ analyzePc = "idle"

-----------------------------------------------------------------------------
(* Bounds of the model *)

MaxTables == 2      \* top-level tables in a generated document
MaxGap == 5         \* empty paragraphs between two tables
MaxToggles == 2     \* options ticked at the same time in the UI

-----------------------------------------------------------------------------
(* Generic helpers *)

Range(s) == {s[i] : i \in DOMAIN s}

Max(a, b) == IF a >= b THEN a ELSE b

Min(a, b) == IF a <= b THEN a ELSE b

\* index of the first occurrence of x in s, 0 when absent (Array.indexOf + 1)
FirstIndex(s, x) ==
    IF \E i \in DOMAIN s : s[i] = x
    THEN CHOOSE i \in DOMAIN s : s[i] = x /\ \A j \in 1..(i-1) : s[j] # x
    ELSE 0

\* String.prototype.substring on positions from..to, cut at the end of s
Slice(s, from, to) == SubSeq(s, from, Min(to, Len(s)))

RemoveAt(s, i) == SubSeq(s, 1, i-1) \o SubSeq(s, i+1, Len(s))

InsertAt(s, i, x) == SubSeq(s, 1, i-1) \o <<x>> \o SubSeq(s, i, Len(s))

\* JavaScript whitespace as far as the model's alphabet goes
IsSpace(c) == c = " "

\* String.prototype.trim on a sequence of characters
RECURSIVE TrimLeft(_)
TrimLeft(s) ==
    IF s = <<>> THEN <<>>
    ELSE IF IsSpace(Head(s)) THEN TrimLeft(Tail(s)) ELSE s

RECURSIVE TrimRight(_)
TrimRight(s) ==
    IF s = <<>> THEN <<>>
    ELSE IF IsSpace(s[Len(s)]) THEN TrimRight(SubSeq(s, 1, Len(s)-1)) ELSE s

Trim(s) == TrimRight(TrimLeft(s))

-----------------------------------------------------------------------------
(* The DOM tree.  A node is a record                                       *)
(*   kind  : element name without the w: prefix ("other" = any other node) *)
(*   kids  : ordered child nodes that are themselves modelled as nodes     *)
(*   text  : the characters of the node's own text (runs of a paragraph)   *)
(*   hasPr : whether the properties child (tblPr, tcPr, pPr) exists        *)
(*   pr    : the ordered children of that properties element, each a       *)
(*           record [name, val] with val a set of <<key, value>> pairs     *)
(* Node 1 is w:body.  A node removed from its parent stays in dom,         *)
(* unreachable from node 1, as a detached DOM node does.                   *)

Root == 1

MkNode(k, txt, has, props) ==
    [kind |-> k, kids |-> <<>>, text |-> txt, hasPr |-> has, pr |-> props]

\* Node.parentNode (0 = null).  The body's parent is the document element.
ParentNode(d, n) ==
    IF \E p \in DOMAIN d : n \in Range(d[p].kids)
    THEN CHOOSE p \in DOMAIN d : n \in Range(d[p].kids)
    ELSE 0

\* the siblings that follow n, in order (the nextSibling chain)
FollowingSiblings(d, n) ==
    LET p == ParentNode(d, n) IN
    IF p = 0 THEN <<>>
    ELSE LET i == FirstIndex(d[p].kids, n)
         IN SubSeq(d[p].kids, i+1, Len(d[p].kids))

\* all descendants of n in document order
RECURSIVE Descendants(_, _)
RECURSIVE DescendantsOfAll(_, _)
Descendants(d, n) == DescendantsOfAll(d, d[n].kids)
DescendantsOfAll(d, ns) ==
    IF ns = <<>> THEN <<>>
    ELSE <<Head(ns)>> \o Descendants(d, Head(ns)) \o DescendantsOfAll(d, Tail(ns))

\* Element.getElementsByTagName for the structural elements
GetElementsByTagName(d, n, k) ==
    SelectSeq(Descendants(d, n), LAMBDA x : d[x].kind = k)

\* Node.textContent: the text of the node and of all its descendants
RECURSIVE ConcatText(_, _)
ConcatText(d, ns) ==
    IF ns = <<>> THEN <<>> ELSE d[Head(ns)].text \o ConcatText(d, Tail(ns))
TextContent(d, n) == d[n].text \o ConcatText(d, Descendants(d, n))

\* parent.removeChild(n)
RemoveChild(d, n) ==
    LET p == ParentNode(d, n) IN
    IF p = 0 THEN d
    ELSE [d EXCEPT ![p].kids = RemoveAt(@, FirstIndex(@, n))]

\* parent.appendChild(n): n is first removed from where it is
AppendChild(d, par, n) ==
    LET d1 == RemoveChild(d, n) IN [d1 EXCEPT ![par].kids = Append(@, n)]

\* doc.createElement + parent.insertBefore(new, ref); ref = 0 appends
CreateBefore(d, par, ref, node) ==
    LET id == Len(d) + 1
        d1 == Append(d, node)
        i  == FirstIndex(d1[par].kids, ref)
    IN [d1 EXCEPT ![par].kids = IF i = 0 THEN Append(@, id) ELSE InsertAt(@, i, id)]

\* doc.createElement + parent.appendChild(new)
CreateChild(d, par, node) == CreateBefore(d, par, 0, node)

\* the first child of a properties element with the given name, 0 when none
PropIndex(props, nm) ==
    IF \E i \in DOMAIN props : props[i].name = nm
    THEN CHOOSE i \in DOMAIN props :
            props[i].name = nm /\ \A j \in 1..(i-1) : props[j].name # nm
    ELSE 0

-----------------------------------------------------------------------------
(* Documents the model starts from.  A document is a w:body holding up to  *)
(* MaxTables tables; between the first two tables lie k empty paragraphs   *)
(* (alternately without text and with a blank) and optionally one other    *)
(* node; each table is built after one of the TableProfiles.               *)

Sides == {"top", "left", "bottom", "right", "insideH", "insideV"}

Prop(nm, v) == [name |-> nm, val |-> v]

\* a border-definition element whose side children carry the given style
TblBorders(sideSet, style) == Prop("tblBorders", {<<s, style>> : s \in sideSet})

InitialTblPr(b) ==
    <<Prop("tblW", {<<"w", "0">>, <<"type", "auto">>})>>
    \o (IF b = "none" THEN <<>>
        ELSE IF b = "partial" THEN <<TblBorders({"top", "left"}, "double:8:0:FF0000")>>
        ELSE <<TblBorders(Sides, "double:8:0:FF0000")>>)
    \o <<Prop("tblLayout", {<<"type", "fixed">>})>>

TableProfiles ==
    << [rows |-> 1, hasPr |-> TRUE,  borders |-> "none",    nested |-> FALSE],
       [rows |-> 2, hasPr |-> TRUE,  borders |-> "partial", nested |-> FALSE],
       [rows |-> 1, hasPr |-> TRUE,  borders |-> "full",    nested |-> TRUE],
       [rows |-> 2, hasPr |-> FALSE, borders |-> "none",    nested |-> FALSE],
       [rows |-> 1, hasPr |-> FALSE, borders |-> "none",    nested |-> TRUE] >>

NestedProfile == [rows |-> 1, hasPr |-> TRUE, borders |-> "partial", nested |-> FALSE]

Intruders == {"none", "text", "other"}

AddParagraph(d, par, txt) == CreateChild(d, par, MkNode("p", txt, FALSE, <<>>))

RECURSIVE AddRows(_, _, _, _)
AddTable(d, par, prof) ==
    LET t  == Len(d) + 1
        d1 == CreateChild(d, par,
                  MkNode("tbl", <<>>, prof.hasPr,
                         IF prof.hasPr THEN InitialTblPr(prof.borders) ELSE <<>>))
    IN AddRows(d1, t, 1, prof)
AddRows(d, tbl, j, prof) ==
    IF j > prof.rows THEN d
    ELSE LET tr == Len(d) + 1
             d1 == CreateChild(d, tbl, MkNode("tr", <<>>, FALSE, <<>>))
             tc == Len(d1) + 1
             d2 == CreateChild(d1, tr,
                       MkNode("tc", <<>>, TRUE,
                              <<Prop("tcW", {<<"w", "2000">>, <<"type", "dxa">>})>>))
             d3 == IF j = 1
                   THEN CreateChild(d2, tc,
                            MkNode("p", <<"-", " ", "a">>, TRUE,
                                   <<Prop("ind", {<<"left", "720">>}),
                                     Prop("jc", {<<"val", "center">>})>>))
                   ELSE AddParagraph(d2, tc, <<"a">>)
             d4 == IF prof.nested /\ j = 1
                   THEN AddParagraph(AddTable(d3, tc, NestedProfile), tc, <<>>)
                   ELSE d3
         \* d4 is evaluated here, before the next row is built on it
         IN IF Len(d4) > 0 THEN AddRows(d4, tbl, j + 1, prof) ELSE d4

GapItems(k, intr) ==
    LET ps == [j \in 1..k |-> IF j % 2 = 1 THEN "empty" ELSE "blank"]
    IN IF intr = "none" THEN ps
       ELSE SubSeq(ps, 1, Min(1, k)) \o <<intr>> \o SubSeq(ps, Min(1, k) + 1, k)

RECURSIVE AddItems(_, _, _)
AddItems(d, par, items) ==
    IF items = <<>> THEN d
    ELSE LET it == Head(items)
             d1 == IF it = "empty" THEN AddParagraph(d, par, <<>>)
                   ELSE IF it = "blank" THEN AddParagraph(d, par, <<" ">>)
                   ELSE IF it = "text" THEN AddParagraph(d, par, <<"a", " ">>)
                   ELSE CreateChild(d, par, MkNode("other", <<"a">>, FALSE, <<>>))
         IN IF Len(d1) > 0 THEN AddItems(d1, par, Tail(items)) ELSE d1

ProfileOf(v, i) == TableProfiles[((v + i - 2) % Len(TableProfiles)) + 1]

RECURSIVE AddTables(_, _, _, _, _, _)
AddTables(d, i, nT, k, intr, v) ==
    LET d1 == AddTable(d, Root, ProfileOf(v, i))
    IN IF i >= nT THEN d1
       ELSE LET items == IF i = 1 THEN GapItems(k, intr)
                         ELSE GapItems((k + i - 1) % (MaxGap + 1), "none")
            IN AddTables(AddItems(d1, Root, items), i + 1, nT, k, intr, v)

\* body: a heading paragraph, the tables with their gaps, a closing
\* paragraph and the section properties
BuildDoc(nT, k, intr, v) ==
    LET d0 == <<MkNode("body", <<>>, FALSE, <<>>)>>
        d1 == AddParagraph(d0, Root, <<"a">>)
        d2 == AddTables(d1, 1, nT, k, intr, v)
    IN AddItems(d2, Root, <<"empty", "other">>)

\* documents with three tables in a row: k empty paragraphs between the
\* first two, k + 1 between the last two
ChainDoc(profs, k) ==
    LET d0 == <<MkNode("body", <<>>, FALSE, <<>>)>>
        d1 == AddTable(AddParagraph(d0, Root, <<"a">>), Root, TableProfiles[profs[1]])
        d2 == AddTable(AddItems(d1, Root, GapItems(k, "none")), Root,
                       TableProfiles[profs[2]])
        d3 == AddTable(AddItems(d2, Root, GapItems(k + 1, "none")), Root,
                       TableProfiles[profs[3]])
    IN AddItems(d3, Root, <<"empty", "other">>)

ChainDocs ==
    {ChainDoc(profs, k) : profs \in {<<1, 2, 4>>, <<2, 3, 1>>, <<5, 1, 2>>}, k \in {0, 2}}

InitialDocs ==
    {BuildDoc(nT, k, intr, v) :
        nT \in 1..MaxTables, k \in 0..MaxGap, intr \in Intruders,
        v \in 1..Len(TableProfiles)}
    \cup ChainDocs

-----------------------------------------------------------------------------
(* MODULE_4_ANALYZE *)

DateNow == 1000

MergeGapLimit == 5

NoOptions ==
    [fixBorders |-> FALSE, fixSpacing |-> FALSE, autofit |-> FALSE,
     mergeNext |-> FALSE, fixAlign |-> FALSE]

OptionNames == {"fixBorders", "fixSpacing", "autofit", "mergeNext", "fixAlign"}

\* a package without word/document.xml: file(...)?.asText() is undefined
NoMainPart == <<>>

\* what DOMParser makes of the empty string: a document holding the parser's
\* error element and nothing else (parseFromString never throws)
ParserErrorDoc == <<MkNode("parsererror", <<>>, FALSE, <<>>)>>

\* pzip.file("word/document.xml")?.asText() || "", then parseFromString
ParseFromString(file) == IF file = NoMainPart THEN ParserErrorDoc ELSE file

\* doc.getElementsByTagName("w:tbl")
XmlTables(d) == GetElementsByTagName(d, Root, "tbl")

\* tbl.getElementsByTagName("w:tblPr")[0]: the node whose tblPr that is
\* (the table itself, else the first nested table that has one), 0 = none
TblPrOwner(d, t) ==
    LET cands == SelectSeq(<<t>> \o GetElementsByTagName(d, t, "tbl"),
                           LAMBDA x : d[x].hasPr)
    IN IF cands = <<>> THEN 0 ELSE Head(cands)

\* tblPr?.getElementsByTagName("w:tblBorders")[0], as [found, val]
BordersOf(d, t) ==
    LET o == TblPrOwner(d, t)
        i == IF o = 0 THEN 0 ELSE PropIndex(d[o].pr, "tblBorders")
    IN IF i = 0 THEN [found |-> FALSE, val |-> {}]
       ELSE [found |-> TRUE, val |-> d[o].pr[i].val]

BorderIssues(d, t) ==
    LET b == BordersOf(d, t) IN
    IF ~b.found THEN <<"missing borders">>
    ELSE IF \E s \in Sides : ~(\E e \in b.val : e[1] = s)
         THEN <<"incomplete borders">>
         ELSE <<>>

\* the sibling walk of the mergeable check: [clean, count]
RECURSIVE GapScan(_, _, _, _)
GapScan(d, sibs, stop, count) ==
    IF sibs = <<>> \/ Head(sibs) = stop
    THEN [clean |-> TRUE, count |-> count]
    ELSE LET s == Head(sibs) IN
         IF d[s].kind = "p"
         THEN IF Len(Trim(TextContent(d, s))) > 0
              THEN [clean |-> FALSE, count |-> count]
              ELSE GapScan(d, Tail(sibs), stop, count + 1)
         ELSE IF d[s].kind = "tbl"
              THEN [clean |-> TRUE, count |-> count]
              ELSE GapScan(d, Tail(sibs), stop, count)

\* CanMergeNext with the threshold taken inclusively (gapCount <= 5)
CanMergeNextInclusive(d, idx) ==
    LET xmlTables == XmlTables(d) IN
    /\ idx < Len(xmlTables) - 1
    /\ LET g == GapScan(d, FollowingSiblings(d, xmlTables[idx + 1]),
                        xmlTables[idx + 2], 0)
       IN g.clean /\ g.count <= MergeGapLimit

\* idx is the zero-based index of the table in xmlTables
CanMergeNext(d, idx) ==
    LET xmlTables == XmlTables(d) IN
    /\ idx < Len(xmlTables) - 1
    /\ LET g == GapScan(d, FollowingSiblings(d, xmlTables[idx + 1]),
                        xmlTables[idx + 2], 0)
       IN g.clean /\ g.count < MergeGapLimit

TableInfo(d, idx) ==
    LET t == XmlTables(d)[idx + 1]
        m == CanMergeNext(d, idx)
    IN [id |-> DateNow + idx,
        index |-> idx,
        issues |-> BorderIssues(d, t) \o (IF m THEN <<"mergeable">> ELSE <<>>),
        canMergeNext |-> m,
        options |-> NoOptions]

\* the result of MODULE_4_ANALYZE once mammoth has converted the file
AnalyzeTables(file) ==
    LET doc == ParseFromString(file)
    IN [i \in 1..Len(XmlTables(doc)) |-> TableInfo(doc, i - 1)]

\* handleMod4FileChange -> MODULE_4_ANALYZE -> setMod4Tables.  mammoth reads
\* the main part the package relationships name: for a package without
\* word/document.xml it either throws (the handler alerts and keeps the
\* previous mod4Tables) or converts the part stored under another name.
Analyze ==
    /\ pc = "loaded"
    /\ \E mammothOk \in BOOLEAN :
          /\ mod4File # NoMainPart => mammothOk
          /\ mod4Tables' = IF mammothOk THEN AnalyzeTables(mod4File) ELSE mod4Tables
          /\ mod4Out' = IF mammothOk THEN "none" ELSE "error"
    /\ pc' = "config"
    /\ UNCHANGED <<mod4File, dom, tblNodeMap, sortedConfigs, mi, ri>>
    /\ UNCHANGED nonFixVars

\* the files chosen while another file is already loaded
SecondFiles == {NoMainPart}

\* handleMod4FileChange up to the call of MODULE_4_ANALYZE: setMod4File
ChangeFile ==
    /\ pc = "config"
    /\ mod4File' \in SecondFiles
    /\ pc' = "loaded"
    /\ UNCHANGED <<dom, mod4Tables, tblNodeMap, sortedConfigs, mi, ri, mod4Out>>
    /\ UNCHANGED nonFixVars

Ticked(tabs) ==
    {<<i, o>> \in (DOMAIN tabs) \X OptionNames : tabs[i].options[o]}

\* toggleMod4Option; the mergeNext checkbox is rendered only when
\* canMergeNext holds
ToggleOption(i, o) ==
    /\ pc = "config"
    /\ i \in DOMAIN mod4Tables
    /\ o = "mergeNext" => mod4Tables[i].canMergeNext
    /\ ~mod4Tables[i].options[o] => Cardinality(Ticked(mod4Tables)) < MaxToggles
    /\ mod4Tables' = [mod4Tables EXCEPT ![i].options[o] = ~@]
    /\ UNCHANGED <<mod4File, dom, pc, tblNodeMap, sortedConfigs, mi, ri, mod4Out>>
    /\ UNCHANGED nonFixVars

-----------------------------------------------------------------------------
(* MODULE_4_FIX, stage 0: bind every config to its table node *)

\* [...mod4TableConfig].sort((a, b) => b.index - a.index)
SortByIndexDesc(confs) ==
    [j \in 1..Len(confs) |->
        LET pos == CHOOSE i \in DOMAIN confs :
                      Cardinality({h \in DOMAIN confs :
                          \/ confs[h].index > confs[i].index
                          \/ (confs[h].index = confs[i].index /\ h < i)}) = j - 1
        IN confs[pos]]

\* mod4TableConfig.find(c => c.index === i), 0 when none
FindConfByIndex(confs, i) ==
    IF \E h \in DOMAIN confs : confs[h].index = i
    THEN CHOOSE h \in DOMAIN confs :
            confs[h].index = i /\ \A g \in 1..(h-1) : confs[g].index # i
    ELSE 0

\* initialDomTables.forEach((tbl, i) => ... tblNodeMap.set(tbl, conf))
BuildTblNodeMap(d, confs) ==
    LET tbls == XmlTables(d)
        bound == SelectSeq([i \in 1..Len(tbls) |-> i],
                           LAMBDA i : FindConfByIndex(confs, i - 1) # 0)
    IN [j \in 1..Len(bound) |->
           [node |-> tbls[bound[j]],
            conf |-> confs[FindConfByIndex(confs, bound[j] - 1)]]]

\* handleMod4Fix -> MODULE_4_FIX up to the start of the merge loop; the
\* button is disabled while mod4Tables is empty
FixStart ==
    /\ pc = "config"
    /\ Len(mod4Tables) > 0
    /\ dom' = ParseFromString(mod4File)
    /\ tblNodeMap' = BuildTblNodeMap(ParseFromString(mod4File), mod4Tables)
    /\ sortedConfigs' = SortByIndexDesc(mod4Tables)
    /\ mi' = 1
    /\ ri' = 1
    /\ pc' = IF Len(mod4Tables) = 0 THEN "save" ELSE "merge"
    /\ UNCHANGED <<mod4File, mod4Tables, mod4Out>>
    /\ UNCHANGED nonFixVars

-----------------------------------------------------------------------------
(* MODULE_4_FIX, stage 1: the merge loop *)

\* Array.from(tblNodeMap.keys()).find(k => tblNodeMap.get(k)?.id === conf.id)
NodeOfConf(map, conf) ==
    IF \E j \in DOMAIN map : map[j].conf.id = conf.id
    THEN map[CHOOSE j \in DOMAIN map :
                map[j].conf.id = conf.id
                /\ \A h \in 1..(j-1) : map[h].conf.id # conf.id].node
    ELSE 0

\* the walk over tblNode's following siblings: everything before the first
\* w:tbl sibling is a gap node
MergeWalk(d, tblNode) ==
    LET sibs == FollowingSiblings(d, tblNode)
        hits == {i \in DOMAIN sibs : d[sibs[i]].kind = "tbl"}
    IN IF hits = {} THEN [gapNodes |-> sibs, targetTbl |-> 0]
       ELSE LET i == CHOOSE x \in hits : \A y \in hits : x <= y
            IN [gapNodes |-> SubSeq(sibs, 1, i - 1), targetTbl |-> sibs[i]]

RECURSIVE AppendAll(_, _, _)
AppendAll(d, par, ns) ==
    IF ns = <<>> THEN d
    ELSE AppendAll(AppendChild(d, par, Head(ns)), par, Tail(ns))

RECURSIVE RemoveAll(_, _)
RemoveAll(d, ns) ==
    IF ns = <<>> THEN d ELSE RemoveAll(RemoveChild(d, Head(ns)), Tail(ns))

\* the rows moved out of the target table
MergedRows(d, targetTbl) == GetElementsByTagName(d, targetTbl, "tr")

\* the nodes deleted between the two tables
MergeRemoved(gapNodes) == gapNodes

\* body of "if (conf.options.mergeNext)"
MergeNext(d, tblNode) ==
    LET w == MergeWalk(d, tblNode) IN
    IF w.targetTbl = 0 THEN d
    ELSE LET d1 == AppendAll(d, tblNode, MergedRows(d, w.targetTbl))
             d2 == RemoveAll(d1, MergeRemoved(w.gapNodes))
         IN RemoveChild(d2, w.targetTbl)

\* the table a merge-loop iteration works on; 0 when it "continue"s
MergeNodeAt(d, map, confs, i) ==
    LET n == NodeOfConf(map, confs[i])
    IN IF n = 0 \/ ParentNode(d, n) = 0 THEN 0 ELSE n

\* one iteration of "for (const conf of sortedConfigs)"
MergeStep ==
    /\ pc = "merge"
    /\ LET conf == sortedConfigs[mi]
           n == MergeNodeAt(dom, tblNodeMap, sortedConfigs, mi)
       IN dom' = IF n # 0 /\ conf.options.mergeNext THEN MergeNext(dom, n) ELSE dom
    /\ mi' = mi + 1
    /\ pc' = IF mi < Len(sortedConfigs) THEN "merge"
             ELSE IF Len(tblNodeMap) = 0 THEN "save" ELSE "repair"
    /\ UNCHANGED <<mod4File, mod4Tables, tblNodeMap, sortedConfigs, ri, mod4Out>>
    /\ UNCHANGED nonFixVars

-----------------------------------------------------------------------------
(* MODULE_4_FIX, stage 2: the repair pipeline of one table *)

\* element.setAttribute(k, v) on a set of <<key, value>> pairs
SetAttr(val, k, v) == {e \in val : e[1] # k} \cup {<<k, v>>}

\* "let x = pr.getElementsByTagName(nm)[0]; if (!x) { create; append }"
EnsureProp(props, nm) ==
    IF PropIndex(props, nm) = 0 THEN Append(props, Prop(nm, {})) ELSE props

\* setAttribute on the first child named nm (which exists)
SetPropAttr(props, nm, k, v) ==
    [props EXCEPT ![PropIndex(props, nm)].val = SetAttr(@, k, v)]

\* "if (x) pr.removeChild(x)" for the first child named nm
RemoveProp(props, nm) ==
    IF PropIndex(props, nm) = 0 THEN props ELSE RemoveAt(props, PropIndex(props, nm))

ThinSingleLine == "single:4:0:auto"

\* fixBorders without the removal of the existing border element
FixBordersKeepOld(props) == Append(props, TblBorders(Sides, ThinSingleLine))

\* A. fixBorders
FixBorders(props) ==
    Append(RemoveProp(props, "tblBorders"), TblBorders(Sides, ThinSingleLine))

\* B. autofit
Autofit(props) ==
    LET p1 == SetPropAttr(SetPropAttr(EnsureProp(props, "tblW"), "tblW", "w", "4250"),
                          "tblW", "type", "pct")
        p2 == SetPropAttr(EnsureProp(p1, "jc"), "jc", "val", "center")
    IN RemoveProp(p2, "tblLayout")

\* C.1 fixSpacing, internal margins
FixCellMargins(props) ==
    LET p1 == EnsureProp(props, "tblCellMar")
        p2 == SetPropAttr(p1, "tblCellMar", "top", "50:dxa")
        p3 == SetPropAttr(p2, "tblCellMar", "bottom", "50:dxa")
        p4 == SetPropAttr(p3, "tblCellMar", "left", "100:dxa")
    IN SetPropAttr(p4, "tblCellMar", "right", "100:dxa")

IsEmptyParagraph(d, n) == d[n].kind = "p" /\ Trim(TextContent(d, n)) = <<>>

\* the walk of C.2: the empty paragraphs right after the table, and whether
\* a table follows them directly
GapWalk(d, node) ==
    LET sibs == FollowingSiblings(d, node)
        stops == {i \in DOMAIN sibs : ~IsEmptyParagraph(d, sibs[i])}
    IN IF stops = {} THEN [gapNodes |-> sibs, nextTableFound |-> FALSE]
       ELSE LET i == CHOOSE x \in stops : \A y \in stops : x <= y
            IN [gapNodes |-> SubSeq(sibs, 1, i - 1),
                nextTableFound |-> d[sibs[i]].kind = "tbl"]

\* the deletion loop started at i = 2 instead of i = 1
SurplusGapNodesFromTwo(gapNodes) == SubSeq(gapNodes, 3, Len(gapNodes))

\* the gap paragraphs deleted when more than one exists
SurplusGapNodes(gapNodes) == Tail(gapNodes)

\* C.2 fixSpacing, external gap
FixExternalGap(d, node) ==
    LET w == GapWalk(d, node) IN
    IF ~w.nextTableFound THEN d
    ELSE IF Len(w.gapNodes) = 0
         THEN CreateBefore(d, ParentNode(d, node), Head(FollowingSiblings(d, node)),
                           MkNode("p", <<>>, FALSE, <<>>))
         ELSE IF Len(w.gapNodes) > 1
              THEN RemoveAll(d, SurplusGapNodes(w.gapNodes))
              ELSE d

BulletChars == {"-", "+", "U+2022"}

\* D. one paragraph of a cell
FixParagraph(d, p, opts) ==
    LET p0 == IF d[p].hasPr THEN d[p].pr ELSE <<>>
        p1 == RemoveProp(p0, "ind")
        fullText == Trim(d[p].text)
        p2 == IF fullText # <<>> /\ Head(fullText) \in BulletChars
              THEN Append(p1, Prop("ind", {<<"left", "425">>, <<"hanging", "425">>}))
              ELSE p1
        p3 == IF opts.fixSpacing
              THEN SetPropAttr(SetPropAttr(EnsureProp(p2, "spacing"),
                                           "spacing", "before", "40"),
                               "spacing", "after", "40")
              ELSE p2
        p4 == SetPropAttr(EnsureProp(p3, "jc"), "jc", "val", "left")
    IN [d EXCEPT ![p].hasPr = TRUE, ![p].pr = p4]

RECURSIVE FixParagraphs(_, _, _)
FixParagraphs(d, ps, opts) ==
    IF ps = <<>> THEN d
    ELSE FixParagraphs(FixParagraph(d, Head(ps), opts), Tail(ps), opts)

\* cell.getElementsByTagName("w:tcPr")[0]: the cell whose tcPr that is
TcPrOwner(d, cell) ==
    LET cands == SelectSeq(<<cell>> \o GetElementsByTagName(d, cell, "tc"),
                           LAMBDA x : d[x].hasPr)
    IN IF cands = <<>> THEN 0 ELSE Head(cands)

\* D. one cell
FixCell(d, cell, opts) ==
    LET o  == TcPrOwner(d, cell)
        d1 == IF opts.autofit /\ o # 0 /\ PropIndex(d[o].pr, "tcW") # 0
              THEN [d EXCEPT ![o].pr =
                       SetPropAttr(SetPropAttr(@, "tcW", "type", "auto"), "tcW", "w", "0")]
              ELSE d
    IN FixParagraphs(d1, GetElementsByTagName(d1, cell, "p"), opts)

RECURSIVE FixCells(_, _, _)
FixCells(d, cells, opts) ==
    IF cells = <<>> THEN d
    ELSE FixCells(FixCell(d, Head(cells), opts), Tail(cells), opts)

\* D. fixAlign
FixAlign(d, node, opts) == FixCells(d, GetElementsByTagName(d, node, "tc"), opts)

\* the repair pipeline with autofit applied before fixBorders
RepairTableAutofitFirst(d, node, opts) ==
    LET o0 == TblPrOwner(d, node)
        d0 == IF o0 = 0 THEN [d EXCEPT ![node].hasPr = TRUE, ![node].pr = <<>>] ELSE d
        o  == IF o0 = 0 THEN node ELSE o0
        pA == IF opts.autofit THEN Autofit(d0[o].pr) ELSE d0[o].pr
        pB == IF opts.fixBorders THEN FixBorders(pA) ELSE pA
        pC == IF opts.fixSpacing THEN FixCellMargins(pB) ELSE pB
        d1 == [d0 EXCEPT ![o].pr = pC]
        d2 == IF opts.fixSpacing /\ ~opts.mergeNext THEN FixExternalGap(d1, node) ELSE d1
    IN IF opts.fixAlign THEN FixAlign(d2, node, opts) ELSE d2

\* body of "for (const [node, conf] of tblNodeMap.entries())" for a node
\* that still has a parent
RepairTable(d, node, opts) ==
    LET o0 == TblPrOwner(d, node)
        d0 == IF o0 = 0 THEN [d EXCEPT ![node].hasPr = TRUE, ![node].pr = <<>>] ELSE d
        o  == IF o0 = 0 THEN node ELSE o0
        pA == IF opts.fixBorders THEN FixBorders(d0[o].pr) ELSE d0[o].pr
        pB == IF opts.autofit THEN Autofit(pA) ELSE pA
        pC == IF opts.fixSpacing THEN FixCellMargins(pB) ELSE pB
        d1 == [d0 EXCEPT ![o].pr = pC]
        d2 == IF opts.fixSpacing /\ ~opts.mergeNext THEN FixExternalGap(d1, node) ELSE d1
    IN IF opts.fixAlign THEN FixAlign(d2, node, opts) ELSE d2

\* one iteration of the repair loop
RepairStep ==
    /\ pc = "repair"
    /\ LET e == tblNodeMap[ri]
       IN dom' = IF ParentNode(dom, e.node) = 0 THEN dom
                 ELSE RepairTable(dom, e.node, e.conf.options)
    /\ ri' = ri + 1
    /\ pc' = IF ri < Len(tblNodeMap) THEN "repair" ELSE "save"
    /\ UNCHANGED <<mod4File, mod4Tables, tblNodeMap, sortedConfigs, mi, mod4Out>>
    /\ UNCHANGED nonFixVars

\* serialize, store in the package, generate the blob
FixFinish ==
    /\ pc = "save"
    /\ mod4Out' = "blob"
    /\ pc' = "done"
    /\ UNCHANGED <<mod4File, dom, mod4Tables, tblNodeMap, sortedConfigs, mi, ri>>
    /\ UNCHANGED nonFixVars

-----------------------------------------------------------------------------
(* Specification of the MODULE 4 flow *)

FixInit ==
    /\ mod4File \in InitialDocs \cup {NoMainPart}
    /\ dom = <<>>
    /\ mod4Tables = <<>>
    /\ pc = "loaded"
    /\ tblNodeMap = <<>>
    /\ sortedConfigs = <<>>
    /\ mi = 1
    /\ ri = 1
    /\ mod4Out = "none"
    /\ IepIdle
    /\ FillIdle
    /\ AnalyzeIdle

FixNext ==
    \/ Analyze
    \/ ChangeFile
    \/ \E i \in 1..(2 * MaxTables), o \in OptionNames : ToggleOption(i, o)
    \/ FixStart
    \/ MergeStep
    \/ RepairStep
    \/ FixFinish

vars == <<fixVars, iepVars, fillVars, analyzeVars>>

SpecFix == FixInit /\ [][FixNext]_vars

-----------------------------------------------------------------------------
(* Properties of MODULE 4 *)

\* the rows of a table: its w:tr children, in order
RowsOf(d, t) == SelectSeq(d[t].kids, LAMBDA x : d[x].kind = "tr")

AllEmptyParagraphs(d, ns) == \A i \in DOMAIN ns : IsEmptyParagraph(d, ns[i])

\* the merge-loop iteration about to run merges a table into another one
MergeActs ==
    /\ pc = "merge"
    /\ MergeNodeAt(dom, tblNodeMap, sortedConfigs, mi) # 0
    /\ sortedConfigs[mi].options.mergeNext
    /\ MergeWalk(dom, MergeNodeAt(dom, tblNodeMap, sortedConfigs, mi)).targetTbl # 0

MergeSurvivor == MergeNodeAt(dom, tblNodeMap, sortedConfigs, mi)

\* C1 (merge conservation): whenever the merge loop handles a table whose
\* config has mergeNext set and which is followed by k < 5 empty paragraphs
\* and then a table, the survivor's rows afterwards are its m rows followed
\* by the n rows of the absorbed table in their order, and neither the gap
\* paragraphs nor the absorbed table remain in the tree.
C1_MergeConservation ==
    [][ (/\ MergeActs
         /\ AllEmptyParagraphs(dom, MergeWalk(dom, MergeSurvivor).gapNodes)
         /\ Len(MergeWalk(dom, MergeSurvivor).gapNodes) < MergeGapLimit)
        => LET n == MergeSurvivor
               w == MergeWalk(dom, n)
           IN /\ RowsOf(dom', n) = RowsOf(dom, n) \o RowsOf(dom, w.targetTbl)
              /\ \A i \in DOMAIN w.gapNodes : ParentNode(dom', w.gapNodes[i]) = 0
              /\ ParentNode(dom', w.targetTbl) = 0 ]_vars

\* C3 (merge precondition): whenever the merge loop handles a table whose
\* config has mergeNext set and something other than empty paragraphs lies
\* between it and the next table sibling, the iteration changes nothing.
C3_MergePrecondition ==
    [][ (/\ MergeActs
         /\ ~AllEmptyParagraphs(dom, MergeWalk(dom, MergeSurvivor).gapNodes))
        => dom' = dom ]_vars

\* C2 (gap normalization): when the fix pass has ended, every table still in
\* the tree whose config has fixSpacing set and mergeNext not set, and which
\* is separated from the next table sibling by empty paragraphs only, is
\* separated from it by exactly one empty paragraph.
C2_GapNormalization ==
    pc = "done" =>
        \A j \in DOMAIN tblNodeMap :
            LET e == tblNodeMap[j]
                w == MergeWalk(dom, e.node)
            IN (/\ ParentNode(dom, e.node) # 0
                /\ e.conf.options.fixSpacing
                /\ ~e.conf.options.mergeNext
                /\ w.targetTbl # 0
                /\ AllEmptyParagraphs(dom, w.gapNodes))
               => Len(w.gapNodes) = 1

\* the k of the file for a table: the nodes up to its next table sibling
FileGap(t) == MergeWalk(ParseFromString(mod4File), t)

\* C2 witness: a table that had MaxGap empty paragraphs before the next
\* table has exactly one after a pass with fixSpacing and without mergeNext
C2_Witness ==
    /\ pc = "done"
    /\ \E j \in DOMAIN tblNodeMap :
          LET e == tblNodeMap[j] IN
          /\ e.conf.options.fixSpacing /\ ~e.conf.options.mergeNext
          /\ FileGap(e.node).targetTbl # 0
          /\ AllEmptyParagraphs(mod4File, FileGap(e.node).gapNodes)
          /\ Len(FileGap(e.node).gapNodes) = MaxGap
          /\ Len(MergeWalk(dom, e.node).gapNodes) = 1
          /\ MergeWalk(dom, e.node).targetTbl = FileGap(e.node).targetTbl

\* C4 (issue-analyzer threshold): after the analysis, every table separated
\* from its next table sibling by k empty paragraphs only has canMergeNext
\* (and the issue "mergeable") exactly when k < 5.
C4_AnalyzerThreshold ==
    (pc # "loaded" /\ mod4File # NoMainPart) =>
        \A i \in DOMAIN mod4Tables :
            LET w == FileGap(XmlTables(mod4File)[i]) IN
            (w.targetTbl # 0 /\ AllEmptyParagraphs(mod4File, w.gapNodes))
            => /\ mod4Tables[i].canMergeNext <=> (Len(w.gapNodes) < 5)
               /\ mod4Tables[i].canMergeNext
                     <=> ("mergeable" \in Range(mod4Tables[i].issues))

\* C4 witness: a table with exactly five empty paragraphs before the next
\* table was analysed as not mergeable
C4_Witness ==
    /\ pc = "config"
    /\ mod4File # NoMainPart
    /\ \E i \in DOMAIN mod4Tables :
          LET w == FileGap(XmlTables(mod4File)[i]) IN
          /\ w.targetTbl # 0
          /\ AllEmptyParagraphs(mod4File, w.gapNodes)
          /\ Len(w.gapNodes) = 5
          /\ ~mod4Tables[i].canMergeNext

\* the border-definition elements of the table's tblPr, in order
BorderElements(d, t) ==
    LET o == TblPrOwner(d, t) IN
    IF o = 0 THEN <<>> ELSE SelectSeq(d[o].pr, LAMBDA x : x.name = "tblBorders")

OnlyFixBorders == [NoOptions EXCEPT !.fixBorders = TRUE]

\* the tree the flow currently holds
CurrentTree == IF dom = <<>> THEN ParseFromString(mod4File) ELSE dom

C11_MissingMainPart ==
    (mod4File = NoMainPart /\ pc # "loaded") =>
        /\ mod4Out # "blob"
        /\ pc = "config" => (mod4Out = "error" /\ mod4Tables = <<>>)

\* no option of any config is set
ZeroOptions == \A i \in DOMAIN mod4Tables : mod4Tables[i].options = NoOptions

\* C13 (zero-option fix pass): when a fix pass in which no option of any
\* table is set has ended, the tree is the tree that was parsed from the file.
C13_ZeroOptionPass ==
    (pc = "done" /\ ZeroOptions) => dom = ParseFromString(mod4File)

\* the config bound to table t has mergeNext set
MergeNextSet(t) ==
    \E j \in DOMAIN tblNodeMap :
        tblNodeMap[j].node = t /\ tblNodeMap[j].conf.options.mergeNext

\* the run of consecutive tables of the file that starts with t: each table
\* but the last has mergeNext set and only empty paragraphs before the next
RECURSIVE RunFrom(_)
RunFrom(t) ==
    LET w == FileGap(t) IN
    IF /\ MergeNextSet(t)
       /\ w.targetTbl # 0
       /\ AllEmptyParagraphs(ParseFromString(mod4File), w.gapNodes)
    THEN <<t>> \o RunFrom(w.targetTbl)
    ELSE <<t>>

\* no table with mergeNext set has t as its next table
IsRunHead(t) ==
    \A j \in DOMAIN tblNodeMap :
        MergeNextSet(tblNodeMap[j].node) => FileGap(tblNodeMap[j].node).targetTbl # t

\* the rows the tables of a run have in the file, in order
RECURSIVE RunRows(_)
RunRows(run) ==
    IF run = <<>> THEN <<>>
    ELSE RowsOf(ParseFromString(mod4File), Head(run)) \o RunRows(Tail(run))

\* C14 (merge order): when the fix pass has ended, for every run T0, ..., Tj
\* (j >= 1) of consecutive tables of the file, the table T0 is in the tree
\* with the rows of T0, ..., Tj in their original order, and none of
\* T1, ..., Tj is in the tree.
C14_MergeOrder ==
    pc = "done" =>
        \A h \in DOMAIN tblNodeMap :
            LET t0  == tblNodeMap[h].node
                run == RunFrom(t0)
            IN (IsRunHead(t0) /\ Len(run) >= 2)
               => /\ ParentNode(dom, t0) # 0
                  /\ RowsOf(dom, t0) = RunRows(run)
                  /\ \A i \in 2..Len(run) : ParentNode(dom, run[i]) = 0

\* the table-properties children a table has after the steps A, B and C.1
\* were applied to its own properties under the options opts
OwnRepair(props, opts) ==
    LET pA == IF opts.fixBorders THEN FixBorders(props) ELSE props
        pB == IF opts.autofit THEN Autofit(pA) ELSE pA
    IN IF opts.fixSpacing THEN FixCellMargins(pB) ELSE pB

\* C15 (identity resolution): from the merge loop on every config is bound
\* to the table that has the config's index in the file; when the pass has
\* ended, the table properties of every table still in the tree are those
\* its own config's options give, and a table removed by a merge has the
\* properties it had in the file.
C15_IdentityResolution ==
    pc \in {"merge", "repair", "save", "done"} =>
        \A j \in DOMAIN tblNodeMap :
            LET t == tblNodeMap[j].node
                c == tblNodeMap[j].conf
                F == ParseFromString(mod4File)
            IN /\ t = XmlTables(F)[c.index + 1]
               /\ c = mod4Tables[c.index + 1]
               /\ pc = "done" =>
                     IF ParentNode(dom, t) = 0
                     THEN dom[t].hasPr = F[t].hasPr /\ dom[t].pr = F[t].pr
                     ELSE dom[t].pr = OwnRepair(F[t].pr, c.options)

\* C16 (mergeable detection): after the analysis of a file, every table
\* reported with canMergeNext has a following sibling table, and the siblings
\* before that table are empty paragraphs only, fewer than 5 of them.
C16_MergeableDetection ==
    (pc # "loaded" /\ mod4File # NoMainPart) =>
        \A i \in DOMAIN mod4Tables :
            LET w == FileGap(XmlTables(mod4File)[i]) IN
            mod4Tables[i].canMergeNext
            => /\ w.targetTbl # 0
               /\ AllEmptyParagraphs(mod4File, w.gapNodes)
               /\ Len(w.gapNodes) < MergeGapLimit

\* the border-definition element of the table's own properties, as
\* [found, val]
OwnBorders(d, t) ==
    LET i == IF d[t].hasPr THEN PropIndex(d[t].pr, "tblBorders") ELSE 0
    IN IF i = 0 THEN [found |-> FALSE, val |-> {}]
       ELSE [found |-> TRUE, val |-> d[t].pr[i].val]

LacksSide(val) == \E s \in Sides : ~(\E e \in val : e[1] = s)

\* the analyzer's report agrees with the table's own border element
ReportAgrees(d, t, issues) ==
    LET b == OwnBorders(d, t) IN
    /\ ("missing borders" \in Range(issues)) <=> ~b.found
    /\ ("incomplete borders" \in Range(issues)) <=> (b.found /\ LacksSide(b.val))

\* C17 (analyzer and fixBorders agree): the analysis of a file reports
\* "missing borders" for exactly the tables without border element and
\* "incomplete borders" for exactly those whose border element lacks a side;
\* and when a fix pass has ended, the analysis of the resulting tree reports
\* neither issue for any table still in the tree whose config has fixBorders
\* set.
C17_AnalyzerFixAgree ==
    /\ (pc # "loaded" /\ mod4File # NoMainPart) =>
          \A i \in DOMAIN mod4Tables :
              ReportAgrees(mod4File, XmlTables(mod4File)[i], mod4Tables[i].issues)
    /\ pc = "done" =>
          LET again == AnalyzeTables(dom) IN
          \A j \in DOMAIN tblNodeMap :
              LET t == tblNodeMap[j].node
                  i == FirstIndex(XmlTables(dom), t)
              IN (tblNodeMap[j].conf.options.fixBorders /\ i # 0)
                 => /\ "missing borders" \notin Range(again[i].issues)
                    /\ "incomplete borders" \notin Range(again[i].issues)

\* the names of the children of a properties element, in order
PropNames(props) == [i \in DOMAIN props |-> props[i].name]

NamesWithout(names, nm) == SelectSeq(names, LAMBDA x : x # nm)

NamesWith(names, nm) == IF nm \in Range(names) THEN names ELSE Append(names, nm)

\* the children of a table's tblPr after the steps borders, autofit, spacing
\* in this order: borders puts a new border element at the end, autofit
\* adds width and alignment where missing and drops the layout, spacing
\* adds the cell margins where missing
NamesAfterRepair(names, opts) ==
    LET a == IF opts.fixBorders
             THEN Append(NamesWithout(names, "tblBorders"), "tblBorders") ELSE names
        b == IF opts.autofit
             THEN NamesWithout(NamesWith(NamesWith(a, "tblW"), "jc"), "tblLayout") ELSE a
    IN IF opts.fixSpacing THEN NamesWith(b, "tblCellMar") ELSE b

\* the cell's width is given as auto / 0
WidthNeutral(d, n) ==
    LET i == PropIndex(d[n].pr, "tcW")
    IN i # 0 /\ d[n].pr[i].val = {<<"type", "auto">>, <<"w", "0">>}

\* the cells that lie, in the tree d, in a table whose config has both
\* autofit and fixAlign set
AlignedAutofitCells(d) ==
    UNION { Range(GetElementsByTagName(d, tblNodeMap[j].node, "tc")) :
            j \in {k \in DOMAIN tblNodeMap :
                     /\ tblNodeMap[k].conf.options.autofit
                     /\ tblNodeMap[k].conf.options.fixAlign
                     /\ ParentNode(d, tblNodeMap[k].node) # 0} }

\* C26 (pipeline ordering): while the merge loop runs no repair has touched
\* the tree, and the repair loop starts when every merge iteration is done;
\* the tblPr of a repaired table shows the steps in the order borders,
\* autofit, spacing; and the cells whose explicit width the align step has
\* neutralized are those of the tables with both align and autofit set.
C26_PipelineOrder ==
    LET file == ParseFromString(mod4File) IN
    /\ pc = "merge" =>
          /\ ri = 1
          /\ Len(dom) = Len(file)
          /\ \A n \in DOMAIN file : dom[n].hasPr = file[n].hasPr /\ dom[n].pr = file[n].pr
    /\ (pc = "repair" \/ ri > 1) => mi = Len(sortedConfigs) + 1
    /\ pc \in {"save", "done"} =>
          /\ \A j \in DOMAIN tblNodeMap :
                LET t == tblNodeMap[j].node IN
                (/\ \A k \in DOMAIN tblNodeMap : ~tblNodeMap[k].conf.options.mergeNext
                 /\ ParentNode(file, t) = Root
                 /\ TblPrOwner(file, t) \in {0, t})
                => PropNames(dom[t].pr)
                     = NamesAfterRepair(PropNames(file[t].pr), tblNodeMap[j].conf.options)
          /\ \A n \in DOMAIN file :
                (file[n].kind = "tc" /\ PropIndex(file[n].pr, "tcW") # 0)
                => IF n \in AlignedAutofitCells(dom)
                   THEN WidthNeutral(dom, n)
                   ELSE dom[n].pr = file[n].pr \/ ~WidthNeutral(dom, n)

\* C26 witness: a pass without merge has ended in which a table without
\* tblPr had fixBorders and autofit set and now has the border element
\* before width and alignment
C26_Witness ==
    /\ pc = "done"
    /\ \A k \in DOMAIN tblNodeMap : ~tblNodeMap[k].conf.options.mergeNext
    /\ \E j \in DOMAIN tblNodeMap :
          LET t == tblNodeMap[j].node IN
          /\ ParentNode(ParseFromString(mod4File), t) = Root
          /\ ~ParseFromString(mod4File)[t].hasPr
          /\ tblNodeMap[j].conf.options.fixBorders
          /\ tblNodeMap[j].conf.options.autofit
          /\ PropNames(dom[t].pr) = <<"tblBorders", "tblW", "jc">>

-----------------------------------------------------------------------------
(* Text of GENERATE_IEP.  A text is a sequence of tokens: the digits, the  *)
(* punctuation "-", "/", "%", ".", "&", the blank " ", and whole words     *)
(* (the unit words lan, bac, loai, cau, tu, chu stand for lần, bậc, loại,  *)
(* câu, từ, chữ).                                                          *)

Digits == <<"0", "1", "2", "3", "4", "5", "6", "7", "8", "9">>

IsDigit(c) == c \in Range(Digits)

DigitValue(c) == (CHOOSE i \in DOMAIN Digits : Digits[i] = c) - 1

\* parseInt of a run of digits
RECURSIVE ParseInt(_)
ParseInt(ds) ==
    IF ds = <<>> THEN 0
    ELSE 10 * ParseInt(SubSeq(ds, 1, Len(ds) - 1)) + DigitValue(ds[Len(ds)])

\* String(n) for n >= 0
RECURSIVE NumToText(_)
NumToText(n) ==
    IF n < 10 THEN <<Digits[n + 1]>>
    ELSE NumToText(n \div 10) \o <<Digits[(n % 10) + 1]>>

\* number of consecutive tokens from position i on that satisfy Test
RunLength(t, i, Test(_)) ==
    CHOOSE n \in 0..Len(t) :
        /\ \A h \in 0..(n - 1) : i + h <= Len(t) /\ Test(t[i + h])
        /\ (i + n > Len(t) \/ ~Test(t[i + n]))

DigitRun(t, i) == RunLength(t, i, IsDigit)

SpaceRun(t, i) == RunLength(t, i, IsSpace)

TokenAt(t, i) == IF i \in DOMAIN t THEN t[i] ELSE "<end>"

NoMatch == [ok |-> FALSE]

\* the leftmost position from i on where MatchAt succeeds (RegExp search)
Search(t, i, MatchAt(_, _)) ==
    LET hits == {h \in i..Len(t) : MatchAt(t, h).ok}
    IN IF hits = {} THEN NoMatch
       ELSE MatchAt(t, CHOOSE h \in hits : \A g \in hits : h <= g)

RangeUnits == {"lan", "bac", "loai", "cau", "tu", "chu"}

CountUnits == {"lan", "bac", "loai"}

\* /(\d{1,2})\s*-\s*(\d{1,2})(\s+(?:lần|bậc|loại|câu|từ|chữ))?/i at position i
RangeMatchAt(t, i) ==
    LET n1 == Min(2, DigitRun(t, i))
        j  == i + n1 + SpaceRun(t, i + n1)          \* where "-" must be
        k  == j + 1 + SpaceRun(t, j + 1)            \* where group 2 starts
        n2 == Min(2, DigitRun(t, k))
        e  == k + n2                                \* after group 2
        sp == SpaceRun(t, e)
        hasSuffix == sp >= 1 /\ TokenAt(t, e + sp) \in RangeUnits
        stop == IF hasSuffix THEN e + sp + 1 ELSE e
    IN IF n1 >= 1 /\ TokenAt(t, j) = "-" /\ n2 >= 1
       THEN [ok |-> TRUE, start |-> i, full |-> SubSeq(t, i, stop - 1),
             g1 |-> SubSeq(t, i, i + n1 - 1), g2 |-> SubSeq(t, k, e - 1),
             g3 |-> IF hasSuffix THEN SubSeq(t, e, stop - 1) ELSE <<>>]
       ELSE NoMatch

\* /(\d{1,3})\s*\/\s*(\d{1,3})/ at position i
RatioMatchAt(t, i) ==
    LET n1 == Min(3, DigitRun(t, i))
        j  == i + n1 + SpaceRun(t, i + n1)
        k  == j + 1 + SpaceRun(t, j + 1)
        n2 == Min(3, DigitRun(t, k))
    IN IF n1 >= 1 /\ TokenAt(t, j) = "/" /\ n2 >= 1
       THEN [ok |-> TRUE, start |-> i, full |-> SubSeq(t, i, k + n2 - 1),
             g1 |-> SubSeq(t, i, i + n1 - 1), g2 |-> SubSeq(t, k, k + n2 - 1),
             g3 |-> <<>>]
       ELSE NoMatch

\* /(\d+)\s*%/ at position i
PercentMatchAt(t, i) ==
    LET n1 == DigitRun(t, i)
        j  == i + n1 + SpaceRun(t, i + n1)
    IN IF n1 >= 1 /\ TokenAt(t, j) = "%"
       THEN [ok |-> TRUE, start |-> i, full |-> SubSeq(t, i, j),
             g1 |-> SubSeq(t, i, i + n1 - 1), g2 |-> <<>>, g3 |-> <<>>]
       ELSE NoMatch

\* /(\d+)\s+(lần|bậc|loại)/i at position i
CountMatchAt(t, i) ==
    LET n1 == DigitRun(t, i)
        sp == SpaceRun(t, i + n1)
        j  == i + n1 + sp
    IN IF n1 >= 1 /\ sp >= 1 /\ TokenAt(t, j) \in CountUnits
       THEN [ok |-> TRUE, start |-> i, full |-> SubSeq(t, i, j),
             g1 |-> SubSeq(t, i, i + n1 - 1), g2 |-> <<t[j]>>, g3 |-> <<>>]
       ELSE NoMatch

\* txt.match(regex)
RangeMatch(t) == Search(t, 1, RangeMatchAt)
RatioMatch(t) == Search(t, 1, RatioMatchAt)
PercentMatch(t) == Search(t, 1, PercentMatchAt)
CountMatch(t) == Search(t, 1, CountMatchAt)

\* String.prototype.indexOf(full) + 1, 0 when absent
RECURSIVE IndexOfSub(_, _, _)
IndexOfSub(t, full, i) ==
    IF i + Len(full) - 1 > Len(t) THEN 0
    ELSE IF SubSeq(t, i, i + Len(full) - 1) = full THEN i
    ELSE IndexOfSub(t, full, i + 1)

\* txt.replace(full, by): the first occurrence of the string full
ReplaceFirst(t, full, by) ==
    LET i == IndexOfSub(t, full, 1)
    IN IF i = 0 THEN t
       ELSE SubSeq(t, 1, i - 1) \o by \o SubSeq(t, i + Len(full), Len(t))

\* Math.round(x * k / 3) for integers x >= 0
RoundThirds(x, k) == (2 * k * x + 3) \div 6

\* the reduced range of row 1 (by = 2) and row 2 (by = 1)
ReducedLowDoubled(a, by) == Max(1, a - 2 * by)

ReducedLow(a, by) == Max(1, a - by)

ReducedHighSwapped(a, b, by) == Max(ReducedLow(a, by) + 1, b - (3 - by))

\* the upper bound floored at 1 but not raised above the lower bound
ReducedHighNoRaise(a, b, by) == Max(1, b - by)

ReducedHigh(a, b, by) == Max(ReducedLow(a, by) + 1, b - by)

\* 1. range
SplitRange(txt, m) ==
    LET a == ParseInt(m.g1)
        b == ParseInt(m.g2)
        a1 == ReducedLow(a, 2)
        b1 == ReducedHigh(a, b, 2)
        a2 == ReducedLow(a, 1)
        b2 == ReducedHigh(a, b, 1)
    IN IF b > a
       THEN << ReplaceFirst(txt, m.full, NumToText(a1) \o <<"-">> \o NumToText(b1) \o m.g3),
               ReplaceFirst(txt, m.full, NumToText(a2) \o <<"-">> \o NumToText(b2) \o m.g3),
               txt >>
       ELSE <<txt, txt, txt>>

\* 2. ratio
SplitRatio(txt, m) ==
    LET x == ParseInt(m.g1)
        y == ParseInt(m.g2)
    IN IF x <= y
       THEN << ReplaceFirst(txt, m.full, NumToText(Max(1, x - 2)) \o <<"/">> \o NumToText(y)),
               ReplaceFirst(txt, m.full, NumToText(Max(1, x - 1)) \o <<"/">> \o NumToText(y)),
               txt >>
       ELSE <<txt, txt, txt>>

\* 3. percentage
SplitPercent(txt, m) ==
    LET x == ParseInt(m.g1)
    IN << ReplaceFirst(txt, m.full, NumToText(RoundThirds(x, 1)) \o <<"%">>),
          ReplaceFirst(txt, m.full, NumToText(RoundThirds(x, 2)) \o <<"%">>),
          txt >>

\* 4. bare count
SplitCount(txt, m) ==
    LET x == ParseInt(m.g1)
    IN << ReplaceFirst(txt, m.full, NumToText(Max(1, x - 2)) \o <<" ">> \o m.g2),
          ReplaceFirst(txt, m.full, NumToText(Max(1, x - 1)) \o <<" ">> \o m.g2),
          txt >>

\* shortGoalsRaw with the ratio extractor tried before the range extractor
ShortGoalsRawRatioFirst(txt, smart) ==
    IF ~smart THEN <<txt, txt, txt>>
    ELSE IF RatioMatch(txt).ok THEN SplitRatio(txt, RatioMatch(txt))
    ELSE IF RangeMatch(txt).ok THEN SplitRange(txt, RangeMatch(txt))
    ELSE IF PercentMatch(txt).ok THEN SplitPercent(txt, PercentMatch(txt))
    ELSE IF CountMatch(txt).ok THEN SplitCount(txt, CountMatch(txt))
    ELSE <<txt, txt, txt>>

\* shortGoalsRaw with the smartSplitting flag ignored
ShortGoalsRawAlwaysSmart(txt, smart) ==
    IF RangeMatch(txt).ok THEN SplitRange(txt, RangeMatch(txt))
    ELSE IF RatioMatch(txt).ok THEN SplitRatio(txt, RatioMatch(txt))
    ELSE IF PercentMatch(txt).ok THEN SplitPercent(txt, PercentMatch(txt))
    ELSE IF CountMatch(txt).ok THEN SplitCount(txt, CountMatch(txt))
    ELSE <<txt, txt, txt>>

\* shortGoalsRaw
ShortGoalsRaw(txt, smart) ==
    IF ~smart THEN <<txt, txt, txt>>
    ELSE IF RangeMatch(txt).ok THEN SplitRange(txt, RangeMatch(txt))
    ELSE IF RatioMatch(txt).ok THEN SplitRatio(txt, RatioMatch(txt))
    ELSE IF PercentMatch(txt).ok THEN SplitPercent(txt, PercentMatch(txt))
    ELSE IF CountMatch(txt).ok THEN SplitCount(txt, CountMatch(txt))
    ELSE <<txt, txt, txt>>

\* escapeXml
RECURSIVE EscapeXml(_)
EscapeXml(t) ==
    IF t = <<>> THEN <<>>
    ELSE (IF Head(t) = "&" THEN <<"&amp;">>
          ELSE IF Head(t) = "<" THEN <<"&lt;">>
          ELSE IF Head(t) = ">" THEN <<"&gt;">>
          ELSE IF Head(t) = "'" THEN <<"&apos;">>
          ELSE IF Head(t) = "\"" THEN <<"&quot;">>
          ELSE <<Head(t)>>) \o EscapeXml(Tail(t))

-----------------------------------------------------------------------------
(* GENERATE_IEP: the template.  The main document part is a sequence of    *)
(* tokens: the tags below, and words.  Vietnamese words are written in     *)
(* ASCII in Telex spelling (Linhx vuwcj, MUCJ TIEEU DAIF HANJ).            *)

TagTokens == {"<w:tbl>", "</w:tbl>", "<w:tr>", "</w:tr>", "<w:tc>", "</w:tc>"}

IsTag(tok) == tok \in TagTokens

\* removeVietnameseTones on one word
FoldWord(w) ==
    CASE w \in {"Linhx", "LINHX"} -> "linh"
      [] w \in {"vuwcj", "VUWCJ"} -> "vuc"
      [] w \in {"Mucj", "MUCJ", "mucj"} -> "muc"
      [] w \in {"tieeu", "TIEEU", "Tieeu"} -> "tieu"
      [] w \in {"daif", "DAIF"} -> "dai"
      [] w \in {"ngawns", "NGAWNS"} -> "ngan"
      [] w \in {"hanj", "HANJ"} -> "han"
      [] w \in {"STT", "Stt"} -> "stt"
      [] w \in {"No.", "NO."} -> "no."
      [] w \in {"Ghi"} -> "ghi"
      [] w \in {"chus"} -> "chu"
      [] OTHER -> w

\* removeVietnameseTones on a text
RemoveVietnameseTones(ws) == [i \in DOMAIN ws |-> FoldWord(ws[i])]

\* String.prototype.indexOf(tok, from): positions count from 1, 0 = absent
TokIndexOf(t, tok, from) ==
    LET hits == {i \in Max(from, 1)..Len(t) : t[i] = tok}
    IN IF hits = {} THEN 0 ELSE CHOOSE i \in hits : \A j \in hits : i <= j

\* String.prototype.includes on texts
Includes(t, sub) == IndexOfSub(t, sub, 1) # 0

MarkerDomain == <<"linh", "vuc">>
MarkerLongTerm == <<"muc", "tieu", "dai", "han">>
MarkerShortTerm == <<"muc", "tieu", "ngan", "han">>

\* the header test of the table search
IsGoalHeaderLoose(normText) ==
    Includes(normText, MarkerDomain) /\ Includes(normText, MarkerLongTerm)

IsGoalHeader(normText) ==
    /\ Includes(normText, MarkerDomain)
    /\ Includes(normText, MarkerLongTerm)
    /\ Includes(normText, MarkerShortTerm)

HasSttMarker(normText) == Includes(normText, <<"stt">>) \/ Includes(normText, <<"no.">>)

\* substring(from, to) with the tags replaced by blanks, blanks collapsed,
\* trimmed: the words, in order
RawText(doc, from, to) == SelectSeq(SubSeq(doc, from, to), LAMBDA tok : ~IsTag(tok))

\* the inner while loop: the position after the close tag that balances the
\* table opened before scanIndex, 0 when there is none
RECURSIVE ScanDepth(_, _, _)
ScanDepth(doc, depth, scanIndex) ==
    LET nextOpen  == TokIndexOf(doc, "<w:tbl>", scanIndex)
        nextClose == TokIndexOf(doc, "</w:tbl>", scanIndex)
    IN IF nextClose = 0 THEN 0
       ELSE IF nextOpen # 0 /\ nextOpen < nextClose
            THEN ScanDepth(doc, depth + 1, nextOpen + 1)
       ELSE IF depth - 1 = 0 THEN nextClose + 1
       ELSE ScanDepth(doc, depth - 1, nextClose + 1)

\* the outer while loop
RECURSIVE FindTableFrom(_, _)
FindTableFrom(doc, currentIndex) ==
    LET tblStart == TokIndexOf(doc, "<w:tbl>", currentIndex)
        tblEnd == ScanDepth(doc, 1, tblStart + 1)
        firstRowEnd == TokIndexOf(doc, "</w:tr>", tblStart)
        normText == RemoveVietnameseTones(RawText(doc, tblStart, firstRowEnd))
    IN IF tblStart = 0 THEN NoTable
       ELSE IF tblEnd = 0 THEN NoTable
       ELSE IF firstRowEnd # 0 /\ firstRowEnd < tblEnd /\ IsGoalHeader(normText)
            THEN [found |-> TRUE, hasSttColumn |-> HasSttMarker(normText),
                  tableStartIndex |-> tblStart, tableEndIndex |-> tblEnd,
                  headerRowEndIndex |-> firstRowEnd + 1]
       ELSE FindTableFrom(doc, tblEnd)

FindTable(doc) == FindTableFrom(doc, 1)

(* Templates *)

Cell(ws) == <<"<w:tc>">> \o ws \o <<"</w:tc>">>
Row(cells) == <<"<w:tr>">> \o cells \o <<"</w:tr>">>
Tbl(rows) == <<"<w:tbl>">> \o rows \o <<"</w:tbl>">>

HStt == Cell(<<"STT">>)
HNo == Cell(<<"No.">>)
HDomain == Cell(<<"Linhx", "vuwcj">>)
HLongTerm == Cell(<<"MUCJ", "TIEEU", "DAIF", "HANJ">>)
HShortTerm == Cell(<<"Mucj", "tieeu", "ngawns", "hanj">>)
HOther == Cell(<<"Ghi", "chus">>)
GoalHeader == HDomain \o HLongTerm \o HShortTerm
OldRow == Row(Cell(<<"1">>) \o Cell(<<"x">>) \o Cell(<<"y">>) \o Cell(<<"z">>))

\* a list table, then the goal-plan table with the ordinal column and an old
\* body row
GoalDoc ==
    <<"x">> \o Tbl(Row(HOther)) \o <<"y">>
    \o Tbl(Row(HStt \o GoalHeader) \o OldRow) \o <<"z">>

IepDocs ==
    { GoalDoc,
      \* no ordinal column
      Tbl(Row(GoalHeader)) \o <<"z">>,
      \* ordinal column headed "No."
      Tbl(Row(HNo \o GoalHeader) \o OldRow),
      \* a marker spread over two cells
      Tbl(Row(HDomain \o Cell(<<"Mucj", "tieeu">>) \o Cell(<<"daif", "hanj">>) \o HShortTerm)),
      \* two goal-plan tables
      Tbl(Row(GoalHeader) \o OldRow) \o <<"y">> \o Tbl(Row(HStt \o GoalHeader)),
      \* only two of the three markers
      Tbl(Row(HStt \o HDomain \o HLongTerm) \o OldRow) \o Tbl(Row(HOther)),
      \* the markers in the second row
      Tbl(Row(HOther) \o Row(GoalHeader)),
      \* the goal-plan table nested in a body cell of another table
      Tbl(Row(HOther) \o Row(Cell(Tbl(Row(GoalHeader))))) \o <<"z">>,
      \* the goal-plan table nested in a header cell of another table
      Tbl(Row(HOther \o Cell(Tbl(Row(GoalHeader) \o OldRow))) \o OldRow) \o <<"z">>,
      \* a table that is never closed
      <<"x", "<w:tbl>">> \o Row(GoalHeader),
      \* no table
      <<"x", "y">>,
      \* no main document part
      <<>> }

-----------------------------------------------------------------------------
(* GENERATE_IEP: the goal data *)

MaxNum == 14        \* largest bound of a range in a goal text
MaxSelected == 3    \* goals selected at the same time in the UI

GoalSuffixes == {"(MTNT)", "(MTC)"}

RangeTextUnits == {"none", "lan", "chu"}

\* a goal sentence holding the range a-b, with or without a unit word
RangeText(a, b, unit) ==
    <<"x", " ">> \o NumToText(a) \o <<"-">> \o NumToText(b)
    \o (IF unit = "none" THEN <<>> ELSE <<" ", unit>>) \o <<" ", "y">>

LevelOne == <<"Cap", " ", "do", " ", "1">>
LevelTwo == <<"Cap", " ", "do", " ", "2">>
DomainA == <<"Giao", " ", "tiep">>
DomainB == <<"Van", " ", "dong", " ", "&", " ", "choi">>

\* two levels that share a domain name, two domains that share a goal id
EsdmLibrary(rangeText) ==
    << [name |-> LevelOne,
        domains |-> << [name |-> DomainA,
                        goals |-> << [id |-> "M1", text |-> rangeText] >>],
                       [name |-> DomainB,
                        goals |-> << [id |-> "M1", text |-> <<"3", "/", "5", " ", "lan">>] >>] >>],
       [name |-> LevelTwo,
        domains |-> << [name |-> DomainA,
                        goals |-> << [id |-> "M5",
                                      text |-> <<"x", " ", "8", "0", "%", " ", "&", " ", "y">>] >>] >>] >>

\* one level, one domain, one goal
EsdmSingle(rangeText) ==
    << [name |-> LevelOne,
        domains |-> << [name |-> DomainA,
                        goals |-> << [id |-> "M1", text |-> rangeText] >>] >>] >>

\* one level, one domain, two goals
EsdmPair ==
    << [name |-> LevelOne,
        domains |-> << [name |-> DomainA,
                        goals |-> << [id |-> "M1", text |-> <<"x", " ", "8", "0", "%">>],
                                     [id |-> "M2", text |-> <<"y">>] >>] >>] >>

\* pieces of goal sentences: a range with a < b and one with b < a, a ratio
\* with x <= y and one with x > y, a percentage, a count, and a number with
\* a unit that no pattern knows
Segments ==
    { <<"3", "-", "5">>, <<"5", "-", "3">>, <<"2", "/", "4">>, <<"4", "/", "2">>,
      <<"6", "0", "%">>, <<"7", " ", "lan">>, <<"7", " ", "chu">> }

\* a goal sentence holding two pieces
MixedText(s1, s2) == <<"x", " ">> \o s1 \o <<" ", "&", " ">> \o s2 \o <<" ", "y">>

\* Array.prototype.find: the first element that satisfies Test, as a
\* sequence of length 0 or 1
Find(s, Test(_)) ==
    LET hits == SelectSeq(s, Test) IN IF hits = <<>> THEN <<>> ELSE <<hits[1]>>

RECURSIVE FlattenSeq(_)
FlattenSeq(ss) == IF ss = <<>> THEN <<>> ELSE Head(ss) \o FlattenSeq(Tail(ss))

\* Array.from(new Set(s)): the elements in order of first occurrence
RECURSIVE Unique(_)
Unique(s) ==
    IF s = <<>> THEN <<>>
    ELSE LET r == Unique(SubSeq(s, 1, Len(s) - 1))
         IN IF s[Len(s)] \in Range(r) THEN r ELSE Append(r, s[Len(s)])

RECURSIVE Join(_, _)
Join(ss, sep) ==
    IF ss = <<>> THEN <<>>
    ELSE IF Len(ss) = 1 THEN ss[1]
    ELSE ss[1] \o sep \o Join(Tail(ss), sep)

\* the goals of one selection that exist in the data
SelectionGoals(sel, data) ==
    LET levelData == Find(data, LAMBDA l : l.name = sel.level)
        domainData == IF levelData = <<>> THEN <<>>
                      ELSE Find(levelData[1].domains, LAMBDA d : d.name = sel.domain)
    IN FlattenSeq([k \in DOMAIN sel.goals |->
          LET goal == IF domainData = <<>> THEN <<>>
                      ELSE Find(domainData[1].goals, LAMBDA g : g.id = sel.goals[k].id)
          IN IF goal = <<>> THEN <<>>
             ELSE << [levelName |-> sel.level, domainName |-> sel.domain,
                      goalId |-> goal[1].id, longTermGoal |-> goal[1].text,
                      suffix |-> sel.goals[k].suffix] >>])

\* processedData
ProcessedData(sels, data) == FlattenSeq([i \in DOMAIN sels |-> SelectionGoals(sels[i], data)])

-----------------------------------------------------------------------------
(* GENERATE_IEP: the XML builders.  Elements without text content that the *)
(* builders emit as one piece are one token.                               *)

VMergeRestart == "<w:vMerge w:val=\"restart\"/>"
VMergeContinue == "<w:vMerge w:val=\"\"/>"
RunPrPlain == "<w:rPr><w:rFonts/><w:sz w:val=\"24\"/><w:szCs w:val=\"24\"/></w:rPr>"
RunPrBold == "<w:rPr><w:rFonts/><w:sz w:val=\"24\"/><w:szCs w:val=\"24\"/><w:b/><w:bCs/></w:rPr>"
SuffixRunPr == "<w:rPr><w:rFonts/><w:b/><w:bCs/><w:sz w:val=\"24\"/><w:szCs w:val=\"24\"/></w:rPr>"

NoOpts == [bold |-> FALSE, vMerge |-> "none", align |-> "none", isXmlContent |-> FALSE]

\* the value of w:vMerge for opts.vMerge
VMergeToken(vMerge) == IF vMerge = "restart" THEN VMergeRestart ELSE VMergeContinue

\* createCell
CreateCell(content, opts) ==
    LET tcPr == (IF opts.vMerge # "none" THEN <<VMergeToken(opts.vMerge)>> ELSE <<>>)
                \o <<IF opts.bold THEN "<w:vAlign w:val=\"center\"/>"
                     ELSE "<w:vAlign w:val=\"top\"/>">>
        pPr == <<"<w:pPr>",
                 IF opts.align = "center" THEN "<w:jc w:val=\"center\"/>"
                 ELSE "<w:jc w:val=\"left\"/>">>
               \o (IF ~opts.bold THEN <<"<w:spacing w:after=\"100\"/>">> ELSE <<>>)
               \o <<"</w:pPr>">>
        inner == IF opts.isXmlContent THEN content
                 ELSE <<"<w:r>", IF opts.bold THEN RunPrBold ELSE RunPrPlain, "<w:t>">>
                      \o content \o <<"</w:t>", "</w:r>">>
    IN <<"<w:tc>", "<w:tcPr>">> \o tcPr \o <<"</w:tcPr>", "<w:p>">> \o pPr \o inner
       \o <<"</w:p>", "</w:tc>">>

\* createRow
CreateRow(cells) ==
    <<"<w:tr>", "<w:trPr><w:trHeight w:val=\"400\"/></w:trPr>">> \o cells \o <<"</w:tr>">>

DigitsMatchAt(t, i) ==
    IF DigitRun(t, i) >= 1
    THEN [ok |-> TRUE, start |-> i, full |-> SubSeq(t, i, i + DigitRun(t, i) - 1),
          g1 |-> <<>>, g2 |-> <<>>, g3 |-> <<>>]
    ELSE NoMatch

\* shortLvl; "CD" stands for the two letters of the abbreviation
ShortLvl(lvl) ==
    IF Search(lvl, 1, DigitsMatchAt).ok
    THEN <<"CD">> \o Search(lvl, 1, DigitsMatchAt).full
    ELSE lvl

\* domainsInOrder in order of last occurrence
DomainsInOrderByLast(pd) ==
    LET names == [i \in DOMAIN pd |-> pd[Len(pd) + 1 - i].domainName]
        u == Unique(names)
    IN [i \in DOMAIN u |-> u[Len(u) + 1 - i]]

\* domainsInOrder
DomainsInOrder(pd) == Unique([i \in DOMAIN pd |-> pd[i].domainName])

DomainGoals(pd, domainName) == SelectSeq(pd, LAMBDA g : g.domainName = domainName)

\* domainTitle
DomainTitle(domainNum, domainName, domainGoals) ==
    LET uniqueLevels == Unique([i \in DOMAIN domainGoals |-> domainGoals[i].levelName])
        levelParts == [k \in DOMAIN uniqueLevels |->
            LET goals == SelectSeq(domainGoals, LAMBDA g : g.levelName = uniqueLevels[k])
            IN ShortLvl(uniqueLevels[k]) \o <<"-">>
               \o Join([j \in DOMAIN goals |-> <<goals[j].goalId>>], <<"-">>)]
    IN NumToText(domainNum) \o <<".", " ">> \o domainName \o <<" ", "(">>
       \o Join(levelParts, <<",", " ">>) \o <<")">>

\* the iterations of the two nested forEach loops, in order
GoalSlots(pd) ==
    LET doms == DomainsInOrder(pd)
    IN FlattenSeq([d \in DOMAIN doms |->
          LET gs == DomainGoals(pd, doms[d])
          IN [g \in DOMAIN gs |->
                [domainNum |-> d, gIdx |-> g - 1, goal |-> gs[g],
                 domainTitle |-> DomainTitle(d, doms[d], gs)]]])

\* longTermXml
LongTermXml(goalNum, goal) ==
    LET longTermText == EscapeXml(goal.longTermGoal)
        suffix == EscapeXml(IF goal.suffix = "" THEN <<>> ELSE <<goal.suffix>>)
    IN <<"<w:r>", RunPrPlain, "<w:t>">> \o goalNum \o <<".", " ">> \o longTermText
       \o <<"</w:t>", "</w:r>">>
       \o (IF suffix # <<>>
           THEN <<"<w:r>", "<w:br/>", "</w:r>", "<w:r>", SuffixRunPr,
                  "<w:t xml:space=\"preserve\">", " ">> \o suffix \o <<"</w:t>", "</w:r>">>
           ELSE <<>>)

IsDomStartNever(gIdx, i) == FALSE

IsDomStart(gIdx, i) == gIdx = 0 /\ i = 1

IsGoalStart(i) == i = 1

StartOrContinue(isStart) == IF isStart THEN "restart" ELSE "continue"

\* one iteration of the row loop
GoalRow(slot, i, hasSttColumn, smart) ==
    LET goalNum == NumToText(slot.domainNum) \o <<".">> \o NumToText(slot.gIdx + 1)
        shortGoalEscaped == EscapeXml(ShortGoalsRaw(slot.goal.longTermGoal, smart)[i])
        isDomStart == IsDomStart(slot.gIdx, i)
        isGoalStart == IsGoalStart(i)
    IN CreateRow(
         (IF hasSttColumn
          THEN CreateCell(IF isDomStart THEN NumToText(slot.domainNum) ELSE <<>>,
                          [NoOpts EXCEPT !.bold = TRUE, !.align = "center",
                                         !.vMerge = StartOrContinue(isDomStart)])
          ELSE <<>>)
         \o CreateCell(IF isDomStart THEN EscapeXml(slot.domainTitle) ELSE <<>>,
                       [NoOpts EXCEPT !.bold = TRUE, !.align = "left",
                                      !.vMerge = StartOrContinue(isDomStart)])
         \o CreateCell(IF isGoalStart THEN LongTermXml(goalNum, slot.goal) ELSE <<>>,
                       [NoOpts EXCEPT !.align = "left", !.isXmlContent = TRUE,
                                      !.vMerge = StartOrContinue(isGoalStart)])
         \o CreateCell(goalNum \o <<".">> \o NumToText(i) \o <<" ">> \o shortGoalEscaped,
                       [NoOpts EXCEPT !.align = "left"]))

\* the three rows of one goal
GoalRows(slot, hasSttColumn, smart) ==
    GoalRow(slot, 1, hasSttColumn, smart) \o GoalRow(slot, 2, hasSttColumn, smart)
    \o GoalRow(slot, 3, hasSttColumn, smart)

\* newDoc
NewDoc(doc, loc, rows) ==
    SubSeq(doc, 1, loc.headerRowEndIndex - 1) \o rows \o <<"</w:tbl>">>
    \o SubSeq(doc, loc.tableEndIndex, Len(doc))

-----------------------------------------------------------------------------
(* Mode 2: the UI handlers and the GENERATE_IEP flow *)

SelectedCount(sels) == Len(FlattenSeq([i \in DOMAIN sels |-> sels[i].goals]))

IsSelection(s, levelName, domainName) == s.level = levelName /\ s.domain = domainName

\* the updater of toggleGoalSelection with the entry kept when its last
\* goal is removed
ToggledKeepsEmpty(prev, levelName, domainName, goalId) ==
    LET existingSel == Find(prev, LAMBDA s : IsSelection(s, levelName, domainName))
        existingGoal == IF existingSel = <<>> THEN <<>>
                        ELSE Find(existingSel[1].goals, LAMBDA g : g.id = goalId)
        newGoals == SelectSeq(existingSel[1].goals, LAMBDA g : g.id # goalId)
        added == [id |-> goalId, suffix |-> "(MTNT)"]
    IN IF existingSel # <<>>
       THEN [i \in DOMAIN prev |->
               IF IsSelection(prev[i], levelName, domainName)
               THEN [prev[i] EXCEPT !.goals = IF existingGoal # <<>> THEN newGoals
                                              ELSE Append(@, added)]
               ELSE prev[i]]
       ELSE Append(prev, [level |-> levelName, domain |-> domainName, goals |-> <<added>>])

\* the updater that toggleGoalSelection hands to setSelections
ToggledSelections(prev, levelName, domainName, goalId) ==
    LET existingSel == Find(prev, LAMBDA s : IsSelection(s, levelName, domainName))
        existingGoal == IF existingSel = <<>> THEN <<>>
                        ELSE Find(existingSel[1].goals, LAMBDA g : g.id = goalId)
        newGoals == SelectSeq(existingSel[1].goals, LAMBDA g : g.id # goalId)
        added == [id |-> goalId, suffix |-> "(MTNT)"]
    IN IF existingSel # <<>>
       THEN IF existingGoal # <<>>
            THEN IF newGoals = <<>>
                 THEN SelectSeq(prev, LAMBDA s : ~IsSelection(s, levelName, domainName))
                 ELSE [i \in DOMAIN prev |->
                         IF IsSelection(prev[i], levelName, domainName)
                         THEN [prev[i] EXCEPT !.goals = newGoals]
                         ELSE prev[i]]
            ELSE [i \in DOMAIN prev |->
                    IF IsSelection(prev[i], levelName, domainName)
                    THEN [prev[i] EXCEPT !.goals = Append(@, added)]
                    ELSE prev[i]]
       ELSE Append(prev, [level |-> levelName, domain |-> domainName, goals |-> <<added>>])

\* whether the goal is selected
IsSelected(sels, levelName, domainName, goalId) ==
    \E i \in DOMAIN sels :
        /\ IsSelection(sels[i], levelName, domainName)
        /\ \E k \in DOMAIN sels[i].goals : sels[i].goals[k].id = goalId

\* toggleGoalSelection
ToggleGoalSelection(levelName, domainName, goalId) ==
    /\ iepPc = "select"
    /\ ~IsSelected(selections, levelName, domainName, goalId)
          => SelectedCount(selections) < MaxSelected
    /\ selections' = ToggledSelections(selections, levelName, domainName, goalId)
    /\ UNCHANGED <<mode2Template, esdmData, smartSplitting, iepPc, processedData,
                   documentXml, tableLoc, rowsXml, goalPos, zipDocument, iepOut>>
    /\ UNCHANGED nonIepVars

\* updateGoalSuffix, offered for the selected goals
UpdateGoalSuffix(levelName, domainName, goalId, suffix) ==
    /\ iepPc = "select"
    /\ \E i \in DOMAIN selections :
          /\ IsSelection(selections[i], levelName, domainName)
          /\ \E k \in DOMAIN selections[i].goals : selections[i].goals[k].id = goalId
    /\ selections' =
          [i \in DOMAIN selections |->
             IF IsSelection(selections[i], levelName, domainName)
             THEN [selections[i] EXCEPT !.goals =
                     [k \in DOMAIN @ |-> IF @[k].id = goalId
                                         THEN [@[k] EXCEPT !.suffix = suffix]
                                         ELSE @[k]]]
             ELSE selections[i]]
    /\ selections' # selections
    /\ UNCHANGED <<mode2Template, esdmData, smartSplitting, iepPc, processedData,
                   documentXml, tableLoc, rowsXml, goalPos, zipDocument, iepOut>>
    /\ UNCHANGED nonIepVars

\* the smartSplitting checkbox
SetSmartSplitting ==
    /\ iepPc = "select"
    /\ smartSplitting' = ~smartSplitting
    /\ UNCHANGED <<mode2Template, esdmData, selections, iepPc, processedData,
                   documentXml, tableLoc, rowsXml, goalPos, zipDocument, iepOut>>
    /\ UNCHANGED nonIepVars

\* generateIEP up to the point where GENERATE_IEP has read the package
GenerateStart ==
    /\ iepPc = "select"
    /\ selections # <<>>
    /\ processedData' = ProcessedData(selections, esdmData)
    /\ zipDocument' = mode2Template
    /\ documentXml' = mode2Template
    /\ iepPc' = "find"
    /\ UNCHANGED <<mode2Template, esdmData, selections, smartSplitting,
                   tableLoc, rowsXml, goalPos, iepOut>>
    /\ UNCHANGED nonIepVars

\* the table search and the throw that follows it
FindTableStep ==
    /\ iepPc = "find"
    /\ tableLoc' = FindTable(documentXml)
    /\ IF tableLoc'.found
       THEN /\ iepPc' = "rows"
            /\ iepOut' = iepOut
       ELSE /\ iepPc' = "failed"
            /\ iepOut' = [status |-> "error", blob |-> <<>>, filename |-> <<>>]
    /\ UNCHANGED <<mode2Template, esdmData, selections, smartSplitting, processedData,
                   documentXml, rowsXml, goalPos, zipDocument>>
    /\ UNCHANGED nonIepVars

\* one iteration of domainGoals.forEach
EmitGoal ==
    /\ iepPc = "rows"
    /\ goalPos <= Len(GoalSlots(processedData))
    /\ rowsXml' = rowsXml \o GoalRows(GoalSlots(processedData)[goalPos],
                                      tableLoc.hasSttColumn, smartSplitting)
    /\ goalPos' = goalPos + 1
    /\ UNCHANGED <<mode2Template, esdmData, selections, smartSplitting, iepPc,
                   processedData, documentXml, tableLoc, zipDocument, iepOut>>
    /\ UNCHANGED nonIepVars

TemplateName == <<"IEP mau", ".docx">>

\* originalFileName.replace(/\.docx$/i, "") + "_fix1.docx"
OutputFileName(originalFileName) ==
    (IF originalFileName # <<>> /\ originalFileName[Len(originalFileName)] \in {".docx", ".DOCX"}
     THEN SubSeq(originalFileName, 1, Len(originalFileName) - 1)
     ELSE originalFileName) \o <<"_fix1", ".docx">>

\* the package is rewritten and returned
IepSave ==
    /\ iepPc = "rows"
    /\ goalPos > Len(GoalSlots(processedData))
    /\ zipDocument' = NewDoc(documentXml, tableLoc, rowsXml)
    /\ iepOut' = [status |-> "ok", blob |-> zipDocument',
                  filename |-> OutputFileName(TemplateName)]
    /\ iepPc' = "done"
    /\ UNCHANGED <<mode2Template, esdmData, selections, smartSplitting,
                   processedData, documentXml, tableLoc, rowsXml, goalPos>>
    /\ UNCHANGED nonIepVars

IepInit ==
    /\ \/ /\ mode2Template \in IepDocs
          /\ esdmData = EsdmLibrary(RangeText(10, 14, "lan"))
       \/ /\ mode2Template = GoalDoc
          /\ \E a \in 0..MaxNum, b \in 0..MaxNum, unit \in RangeTextUnits :
                esdmData = EsdmSingle(RangeText(a, b, unit))
       \/ /\ mode2Template = GoalDoc
          /\ \E s1 \in Segments, s2 \in Segments :
                esdmData = EsdmSingle(MixedText(s1, s2))
       \/ /\ mode2Template = GoalDoc
          /\ esdmData = EsdmPair
    /\ selections = <<>>
    /\ smartSplitting = FALSE
    /\ iepPc = "select"
    /\ processedData = <<>>
    /\ documentXml = <<>>
    /\ tableLoc = NoTable
    /\ rowsXml = <<>>
    /\ goalPos = 1
    /\ zipDocument = <<>>
    /\ iepOut = NoOutput
    /\ FixIdle
    /\ FillIdle
    /\ AnalyzeIdle

IepNext ==
    \/ \E l \in DOMAIN esdmData :
          \E d \in DOMAIN esdmData[l].domains :
             \E g \in DOMAIN esdmData[l].domains[d].goals :
                ToggleGoalSelection(esdmData[l].name, esdmData[l].domains[d].name,
                                    esdmData[l].domains[d].goals[g].id)
    \/ \E l \in DOMAIN esdmData :
          \E d \in DOMAIN esdmData[l].domains :
             \E g \in DOMAIN esdmData[l].domains[d].goals :
                \E suffix \in GoalSuffixes :
                   UpdateGoalSuffix(esdmData[l].name, esdmData[l].domains[d].name,
                                    esdmData[l].domains[d].goals[g].id, suffix)
    \/ SetSmartSplitting
    \/ GenerateStart
    \/ FindTableStep
    \/ EmitGoal
    \/ IepSave

SpecIEP == IepInit /\ [][IepNext]_vars

-----------------------------------------------------------------------------
(* Properties of GENERATE_IEP, read off the generated XML *)

\* the elements open ... close of a text, in order (elements do not nest)
RECURSIVE SplitElements(_, _, _)
SplitElements(t, open, close) ==
    LET i == TokIndexOf(t, open, 1)
        j == TokIndexOf(t, close, i)
    IN IF i = 0 \/ j = 0 THEN <<>>
       ELSE <<SubSeq(t, i, j)>> \o SplitElements(SubSeq(t, j + 1, Len(t)), open, close)

GeneratedRows == SplitElements(rowsXml, "<w:tr>", "</w:tr>")

CellsOf(row) == SplitElements(row, "<w:tc>", "</w:tc>")

\* how a cell takes part in a vertical merge
VMergeOf(cell) ==
    IF VMergeRestart \in Range(cell) THEN "restart"
    ELSE IF VMergeContinue \in Range(cell) THEN "continue"
    ELSE "none"

\* the vertical-merge marks of the generated rows, row by row
MergeGrid ==
    LET rows == GeneratedRows
    IN [r \in DOMAIN rows |->
          LET cells == CellsOf(rows[r]) IN [c \in DOMAIN cells |-> VMergeOf(cells[c])]]

\* C6 (vertical-merge chain validity): in the rows generated so far, every
\* cell marked as a continuation of a vertical merge has, in the same column
\* of the row just before it, a cell marked restart or continuation; the
\* first generated row has no continuation cell.
C6_VMergeChain ==
    LET grid == MergeGrid
    IN \A r \in DOMAIN grid :
          \A c \in DOMAIN grid[r] :
              grid[r][c] = "continue"
              => /\ r > 1
                 /\ c \in DOMAIN grid[r - 1]
                 /\ grid[r - 1][c] \in {"restart", "continue"}

\* C6 witness: a finished run with the ordinal column, two domains, three
\* goals, whose fourth row continues the domain merge and restarts the goal
\* merge
C6_Witness ==
    /\ iepPc = "done"
    /\ tableLoc.hasSttColumn
    /\ Len(DomainsInOrder(processedData)) = 2
    /\ Len(GeneratedRows) = 9
    /\ Len(DomainGoals(processedData, DomainsInOrder(processedData)[1])) = 2
    /\ MergeGrid[4] = <<"continue", "continue", "restart", "none">>

\* the text of the short-term goal cell of a row, after its number
ShortGoalOf(row) ==
    LET cell == CellsOf(row)[Len(CellsOf(row))]
        text == SubSeq(cell, TokIndexOf(cell, "<w:t>", 1) + 1,
                       TokIndexOf(cell, "</w:t>", 1) - 1)
    IN SubSeq(text, TokIndexOf(text, " ", 1) + 1, Len(text))

\* the short-term goal texts generated for the k-th goal
ShortGoalsOfGoal(k) == [i \in 1..3 |-> ShortGoalOf(GeneratedRows[3 * (k - 1) + i])]

EmittedGoals == 1..(Len(GeneratedRows) \div 3)

LongTermGoalOf(k) == GoalSlots(processedData)[k].goal.longTermGoal

\* the two numbers of a sentence of the form of RangeText, and its unit
ReadRange(txt) ==
    LET n1 == DigitRun(txt, 3)
        n2 == DigitRun(txt, 4 + n1)
        lo == ParseInt(SubSeq(txt, 3, 2 + n1))
        hi == ParseInt(SubSeq(txt, 4 + n1, 3 + n1 + n2))
    IN IF n1 >= 1 /\ n2 >= 1
          /\ \E unit \in RangeTextUnits : txt = RangeText(lo, hi, unit)
       THEN [ok |-> TRUE, lo |-> lo, hi |-> hi,
             unit |-> CHOOSE unit \in RangeTextUnits : txt = RangeText(lo, hi, unit)]
       ELSE [ok |-> FALSE, lo |-> 0, hi |-> 0, unit |-> "none"]

\* for the goals with a range a-b, minA <= a < b, the rows carry ranges with
\* non-decreasing lower and upper bounds, none below 1, the last one a-b
MonotoneFrom(minA) ==
    smartSplitting =>
        \A k \in EmittedGoals :
            LET orig == ReadRange(LongTermGoalOf(k))
                rows == ShortGoalsOfGoal(k)
                r == [i \in 1..3 |-> ReadRange(rows[i])]
            IN (orig.ok /\ minA <= orig.lo /\ orig.lo < orig.hi)
               => /\ \A i \in 1..3 : r[i].ok /\ r[i].unit = orig.unit
                  /\ r[1].lo <= r[2].lo /\ r[2].lo <= r[3].lo
                  /\ r[1].hi <= r[2].hi /\ r[2].hi <= r[3].hi
                  /\ rows[3] = LongTermGoalOf(k)
                  /\ \A i \in 1..3 : r[i].lo >= 1 /\ r[i].hi >= 1

\* C7 (short-goal monotonicity) as stated: with smartSplitting, for every
\* goal text with a range a-b, 0 <= a < b, the three rows carry ranges with
\* non-decreasing lower bounds and non-decreasing upper bounds, the third
\* being the original, and no bound of a row is below 1.
C7_MonotoneFromZero == MonotoneFrom(0)

\* C7 (short-goal monotonicity), amended: the same for 1 <= a < b.
C7_ShortGoalMonotone == MonotoneFrom(1)

\* C7 witness: rows generated with smartSplitting for the range 1-2, whose
\* reduced ranges are floored
C7_Witness ==
    /\ smartSplitting
    /\ \E k \in EmittedGoals :
          /\ LongTermGoalOf(k) = RangeText(1, 2, "chu")
          /\ ShortGoalsOfGoal(k) = [i \in 1..3 |-> RangeText(1, 2, "chu")]

TenToFourteen == RangeText(10, 14, "lan")

\* C8 (short-goal example) as stated: with smartSplitting, a goal whose text
\* holds the range "10-14 lan" yields the ranges "6-10 lan", "8-12 lan",
\* "10-14 lan".
C8_ExampleAsStated ==
    smartSplitting =>
        \A k \in EmittedGoals :
            LongTermGoalOf(k) = TenToFourteen
            => ShortGoalsOfGoal(k) = <<RangeText(6, 10, "lan"), RangeText(8, 12, "lan"),
                                       RangeText(10, 14, "lan")>>

\* C8 (short-goal example), amended: with smartSplitting, a goal whose text
\* holds the range "10-14 lan" yields the ranges "8-12 lan", "9-13 lan",
\* "10-14 lan".
C8_ShortGoalExample ==
    smartSplitting =>
        \A k \in EmittedGoals :
            LongTermGoalOf(k) = TenToFourteen
            => ShortGoalsOfGoal(k) = <<RangeText(8, 12, "lan"), RangeText(9, 13, "lan"),
                                       RangeText(10, 14, "lan")>>

\* C8 witness: the rows of such a goal have been generated
C8_Witness ==
    /\ smartSplitting
    /\ iepPc = "done"
    /\ \E k \in EmittedGoals :
          /\ LongTermGoalOf(k) = TenToFourteen
          /\ ShortGoalsOfGoal(k)[1] = RangeText(8, 12, "lan")

\* the position of the end tag of the row opened at position i
RECURSIVE RowClose(_, _, _)
RowClose(doc, i, depth) ==
    IF i > Len(doc) THEN Len(doc)
    ELSE IF doc[i] = "<w:tr>" THEN RowClose(doc, i + 1, depth + 1)
    ELSE IF doc[i] = "</w:tr>"
         THEN IF depth = 1 THEN i ELSE RowClose(doc, i + 1, depth - 1)
    ELSE RowClose(doc, i + 1, depth)

\* the words of the first row of the table opened at position i
HeaderRowWords(doc, i) ==
    LET open == TokIndexOf(doc, "<w:tr>", i)
    IN IF open = 0 THEN <<>>
       ELSE RemoveVietnameseTones(RawText(doc, open, RowClose(doc, open + 1, 1)))

\* some table of the document has a header row with the three markers
HasGoalTable(doc) ==
    \E i \in DOMAIN doc :
        /\ doc[i] = "<w:tbl>"
        /\ \A marker \in {MarkerDomain, MarkerLongTerm, MarkerShortTerm} :
              IndexOfSub(HeaderRowWords(doc, i), marker, 1) # 0

\* C10 (missing goal-plan table): when no table of the template has a header
\* row with the three markers, GENERATE_IEP ends with the error once it has
\* searched: no blob, no filename, and word/document.xml of the package is
\* what was read.
C10_MissingGoalTable ==
    (~HasGoalTable(mode2Template) /\ iepPc \notin {"idle", "select", "find"})
    => /\ iepPc = "failed"
       /\ iepOut.status = "error"
       /\ iepOut.blob = <<>>
       /\ iepOut.filename = <<>>
       /\ zipDocument = mode2Template
       /\ rowsXml = <<>>

\* C10 witness: the run on a template whose only goal-plan header lacks the
\* short-term marker has failed
C10_Witness ==
    /\ iepPc = "failed"
    /\ ~HasGoalTable(mode2Template)
    /\ Includes(HeaderRowWords(mode2Template, 1), MarkerLongTerm)
    /\ processedData # <<>>

\* the position of the end tag of the first row of the table opened at i
HeaderRowEnd(doc, i) ==
    LET open == TokIndexOf(doc, "<w:tr>", i)
    IN IF open = 0 THEN 0 ELSE RowClose(doc, open + 1, 1)

\* C12 (synthesizer frame): the main part GENERATE_IEP returns is the template
\* up to and including the header row of the located table, then the
\* generated rows, then one table end tag, then the template from behind the
\* end tag of the located table on.
C12_SynthesizerFrame ==
    iepPc = "done" =>
        iepOut.blob =
            SubSeq(mode2Template, 1,
                   HeaderRowEnd(mode2Template, tableLoc.tableStartIndex))
            \o rowsXml \o <<"</w:tbl>">>
            \o SubSeq(mode2Template, tableLoc.tableEndIndex, Len(mode2Template))

\* the range a-b lowered by n: both bounds floored at 1, the upper bound
\* raised to one above the lower where needed
LoweredRange(a, b, n, unit) ==
    LET lo == IF a - n < 1 THEN 1 ELSE a - n
        hi == IF b - n < lo + 1 THEN lo + 1 ELSE b - n
    IN RangeText(lo, hi, unit)

\* the rows of every goal whose text holds a range a-b (with a < b when
\* ordered is set) carry the range lowered by 2, lowered by 1, and the text
RangeRule(ordered) ==
    smartSplitting =>
        \A k \in EmittedGoals :
            LET txt  == LongTermGoalOf(k)
                orig == ReadRange(txt)
            IN (orig.ok /\ (ordered => orig.lo < orig.hi))
               => ShortGoalsOfGoal(k) =
                     << LoweredRange(orig.lo, orig.hi, 2, orig.unit),
                        LoweredRange(orig.lo, orig.hi, 1, orig.unit),
                        txt >>

\* C18 (range rule) as stated: with smartSplitting, for every goal text in
\* which the range pattern a-b matches, row 1 carries (a-2)-(b-2) and row 2
\* (a-1)-(b-1), each bound floored at 1 and the upper bound raised to leave
\* the lower at least 1 below it, and row 3 the unmodified text.
C18_RangeRuleAnyBounds == RangeRule(FALSE)

\* C18 (range rule), amended: the same for the matches with a < b; for a
\* match with b <= a all three rows carry the unmodified text.
C18_RangeRule ==
    /\ RangeRule(TRUE)
    /\ smartSplitting =>
          \A k \in EmittedGoals :
              LET txt  == LongTermGoalOf(k)
                  orig == ReadRange(txt)
              IN (orig.ok /\ orig.lo >= orig.hi)
                 => ShortGoalsOfGoal(k) = <<txt, txt, txt>>

\* C18 witness: the rows of the range 2-3 have been generated: both lowered
\* ranges are floored and raised to 1-2
C18_Witness ==
    /\ smartSplitting
    /\ \E k \in EmittedGoals :
          /\ LongTermGoalOf(k) = RangeText(2, 3, "lan")
          /\ ShortGoalsOfGoal(k)[1] = RangeText(1, 2, "lan")
          /\ ShortGoalsOfGoal(k)[2] = RangeText(1, 2, "lan")
          /\ ShortGoalsOfGoal(k)[3] = RangeText(2, 3, "lan")

\* the place of a piece's pattern in the order range, ratio, percentage,
\* count; 5 for a piece without pattern
SegRank(seg) ==
    IF "-" \in Range(seg) THEN 1
    ELSE IF "/" \in Range(seg) THEN 2
    ELSE IF "%" \in Range(seg) THEN 3
    ELSE IF "lan" \in Range(seg) THEN 4
    ELSE 5

\* what the rule of a piece's pattern makes of it in row 1 and in row 2
SegLowered(seg) ==
    CASE seg = <<"3", "-", "5">> -> << <<"1", "-", "3">>, <<"2", "-", "4">> >>
      [] seg = <<"5", "-", "3">> -> << <<"3", "-", "4">>, <<"4", "-", "5">> >>
      [] seg = <<"2", "/", "4">> -> << <<"1", "/", "4">>, <<"1", "/", "4">> >>
      [] seg = <<"4", "/", "2">> -> << <<"2", "/", "2">>, <<"3", "/", "2">> >>
      [] seg = <<"6", "0", "%">> -> << <<"2", "0", "%">>, <<"4", "0", "%">> >>
      [] seg = <<"7", " ", "lan">> -> << <<"5", " ", "lan">>, <<"6", " ", "lan">> >>
      [] OTHER -> <<seg, seg>>

\* the pieces on which the extractor of their pattern does not act
SegUnordered(seg) == seg \in {<<"5", "-", "3">>, <<"4", "/", "2">>}

\* the three rows of MixedText(s1, s2): the piece whose pattern comes first
\* in the order (the first piece when both have the same pattern) is
\* rewritten in rows 1 and 2, unless guarded is set and the piece is
\* unordered; everything else is kept
MixedRows(s1, s2, guarded) ==
    LET first == SegRank(s1) <= SegRank(s2)
        seg   == IF first THEN s1 ELSE s2
        new   == IF guarded /\ SegUnordered(seg) THEN <<seg, seg>> ELSE SegLowered(seg)
    IN [i \in 1..3 |->
          IF i = 3 THEN MixedText(s1, s2)
          ELSE IF first THEN MixedText(new[i], s2) ELSE MixedText(s1, new[i])]

ExtractorPriority(guarded) ==
    smartSplitting =>
        \A k \in EmittedGoals :
            LET txt == LongTermGoalOf(k) IN
            \A s1 \in Segments, s2 \in Segments :
                txt = MixedText(s1, s2)
                => ShortGoalsOfGoal(k) =
                      [i \in 1..3 |-> EscapeXml(MixedRows(s1, s2, guarded)[i])]

\* C19 (extractor priority) as stated: with smartSplitting, of the patterns
\* range, ratio, percentage, count the first in this order that occurs in
\* the text is applied: its first occurrence is rewritten in rows 1 and 2,
\* and everything else, occurrences of later patterns included, is the same
\* in all three rows.
C19_ExtractorAlwaysRewrites == ExtractorPriority(FALSE)

\* C19 (extractor priority), amended: the same when the chosen occurrence is
\* a range a-b with a < b, a ratio x/y with x <= y, a percentage or a count;
\* for a range with b <= a or a ratio with x > y no row is changed and no
\* later pattern is tried.
C19_ExtractorPriority == ExtractorPriority(TRUE)

\* C19 witness: a sentence with a percentage followed by a range got the
\* range rewritten and the percentage kept
C19_Witness ==
    /\ smartSplitting
    /\ \E k \in EmittedGoals :
          /\ LongTermGoalOf(k) = MixedText(<<"6", "0", "%">>, <<"3", "-", "5">>)
          /\ ShortGoalsOfGoal(k)[1]
                = EscapeXml(MixedText(<<"6", "0", "%">>, <<"1", "-", "3">>))

\* no pattern of the four extractors occurs in the text
NoPattern(txt) ==
    /\ ~RangeMatch(txt).ok
    /\ ~RatioMatch(txt).ok
    /\ ~PercentMatch(txt).ok
    /\ ~CountMatch(txt).ok

\* C20 (degradation to unmodified text): the third row of every goal carries
\* the long-term text; without smartSplitting, and with smartSplitting for a
\* text in which no pattern occurs, all three rows carry it.
C20_UnmodifiedText ==
    \A k \in EmittedGoals :
        LET txt == EscapeXml(LongTermGoalOf(k)) IN
        /\ ShortGoalsOfGoal(k)[3] = txt
        /\ (~smartSplitting \/ NoPattern(LongTermGoalOf(k)))
              => ShortGoalsOfGoal(k) = <<txt, txt, txt>>

\* C20 witness: with smartSplitting, the rows of a sentence without pattern
\* have been generated
C20_Witness ==
    /\ smartSplitting
    /\ \E k \in EmittedGoals :
          /\ LongTermGoalOf(k) = MixedText(<<"7", " ", "chu">>, <<"7", " ", "chu">>)
          /\ ShortGoalsOfGoal(k)[1] = EscapeXml(LongTermGoalOf(k))

\* the number before the text of the short-term goal cell of a row
RowLabelOf(row) ==
    LET cell == CellsOf(row)[Len(CellsOf(row))]
        text == SubSeq(cell, TokIndexOf(cell, "<w:t>", 1) + 1,
                       TokIndexOf(cell, "</w:t>", 1) - 1)
    IN SubSeq(text, 1, TokIndexOf(text, " ", 1) - 1)

\* the text of the long-term goal cell of a row, up to its first blank
LongTermLabelOf(row) ==
    LET cell == CellsOf(row)[Len(CellsOf(row)) - 1]
        text == SubSeq(cell, TokIndexOf(cell, "<w:t>", 1) + 1,
                       TokIndexOf(cell, "</w:t>", 1) - 1)
    IN SubSeq(text, 1, TokIndexOf(text, " ", 1) - 1)

\* the number of the domain of the i-th selection: how many different domain
\* names the selection list holds up to the first entry with this name
DomainNumberOf(i) ==
    LET first == CHOOSE j \in 1..i :
                    /\ selections[j].domain = selections[i].domain
                    /\ \A h \in 1..(j - 1) : selections[h].domain # selections[i].domain
    IN Cardinality({selections[h].domain : h \in 1..first})

\* the place of the k-th goal of the i-th selection among the goals of its
\* domain
GoalNumberOf(i, k) ==
    LET before == {h \in 1..(i - 1) : selections[h].domain = selections[i].domain}
        counts == [h \in 1..Len(selections) |->
                     IF h \in before THEN Len(selections[h].goals) ELSE 0]
    IN k + Len(FlattenSeq([h \in 1..Len(selections) |->
                             [x \in 1..counts[h] |-> h]]))

\* the selected goals, as pairs of selection and place in it
SelectedGoals ==
    {ik \in (1..MaxSelected) \X (1..MaxSelected) :
        /\ ik[1] \in DOMAIN selections
        /\ ik[2] \in DOMAIN selections[ik[1]].goals}

\* how many selected goals come before the k-th goal of the i-th selection
\* when the goals are ordered by domain number, then goal number
GoalsBefore(i, k) ==
    Cardinality({jl \in SelectedGoals :
        \/ DomainNumberOf(jl[1]) < DomainNumberOf(i)
        \/ /\ DomainNumberOf(jl[1]) = DomainNumberOf(i)
           /\ GoalNumberOf(jl[1], jl[2]) < GoalNumberOf(i, k)})

\* C21 (row count and numbering): every selected goal gets three
\* consecutive rows, 3 x the number of goals in all; domains are numbered
\* 1, 2, ... by first appearance in the selection, the g-th goal of domain
\* d carries d.g in its long-term cell, and its rows are labelled d.g.1,
\* d.g.2, d.g.3 in this order.
C21_RowNumbering ==
    iepPc \in {"rows", "done"} =>
        LET rows == GeneratedRows IN
        /\ Len(rows) = 3 * (goalPos - 1)
        /\ iepPc = "done" => Len(rows) = 3 * SelectedCount(selections)
        /\ \A ik \in SelectedGoals :
              LET d == NumToText(DomainNumberOf(ik[1]))
                  g == NumToText(GoalNumberOf(ik[1], ik[2]))
                  at == 3 * GoalsBefore(ik[1], ik[2])
              IN at < Len(rows) =>
                    /\ \A n \in 1..3 :
                          RowLabelOf(rows[at + n]) = d \o <<".">> \o g \o <<".">> \o NumToText(n)
                    /\ LongTermLabelOf(rows[at + 1]) = d \o <<".">> \o g \o <<".">>

\* C21 witness: a finished run over three goals of two domains, the first
\* domain selected in two levels with another domain selected in between
C21_Witness ==
    /\ iepPc = "done"
    /\ Len(selections) = 3
    /\ selections[1].domain = selections[3].domain
    /\ selections[2].domain # selections[1].domain
    /\ Len(GeneratedRows) = 9
    /\ RowLabelOf(GeneratedRows[6]) = <<"1", ".", "2", ".", "3">>
    /\ RowLabelOf(GeneratedRows[7]) = <<"2", ".", "1", ".", "1">>

\* the goals of the goal data, as triples of level, domain and goal id
DataGoals ==
    UNION { UNION { { <<esdmData[l].name, esdmData[l].domains[d].name,
                        esdmData[l].domains[d].goals[g].id>> :
                      g \in DOMAIN esdmData[l].domains[d].goals } :
                    d \in DOMAIN esdmData[l].domains } :
            l \in DOMAIN esdmData }

\* the set of selected goals of a selection list
GoalSetOf(sels) ==
    UNION { { <<sels[i].level, sels[i].domain, sels[i].goals[k].id>> :
              k \in DOMAIN sels[i].goals } : i \in DOMAIN sels }

\* C28 (goal selection invariant): the selection list holds at most one
\* entry per level and domain, no entry without goals and no goal id twice
\* in an entry; and toggling any goal twice in a row gives back the set of
\* selected goals.
C28_SelectionInvariant ==
    /\ \A i \in DOMAIN selections, j \in DOMAIN selections :
          (selections[i].level = selections[j].level
           /\ selections[i].domain = selections[j].domain) => i = j
    /\ \A i \in DOMAIN selections :
          /\ selections[i].goals # <<>>
          /\ \A k \in DOMAIN selections[i].goals, h \in DOMAIN selections[i].goals :
                selections[i].goals[k].id = selections[i].goals[h].id => k = h
    /\ \A t \in DataGoals :
          LET once == ToggledSelections(selections, t[1], t[2], t[3])
              twice == ToggledSelections(once, t[1], t[2], t[3])
          IN /\ GoalSetOf(once) # GoalSetOf(selections)
             /\ GoalSetOf(twice) = GoalSetOf(selections)

\* C28 witness: an entry with two goals, the one selected first now last
\* and with a suffix chosen by hand
C28_Witness ==
    /\ Len(selections) = 1
    /\ Len(selections[1].goals) = 2
    /\ selections[1].goals[1].id = "M2"
    /\ selections[1].goals[2] = [id |-> "M1", suffix |-> "(MTC)"]

-----------------------------------------------------------------------------
(* smartFillXML (mode 1).  The tree is the DOM tree above with the runs    *)
(* made explicit: a w:p holds w:r nodes, a w:r holds w:t nodes (text) and, *)
(* for a text box anchored in the run, an "other" node that holds the      *)
(* paragraphs of the box.  Texts are sequences of words, blanks and        *)
(* punctuation; Vietnamese words are in Telex spelling; "U+FF1A" is the    *)
(* full-width colon.                                                       *)

\* String.prototype.toLowerCase, also the folding of the "i" flag, on a word
LowerWord(w) ==
    CASE w \in {"HOJ", "Hoj"} -> "hoj"
      [] w \in {"VAF", "Vaf"} -> "vaf"
      [] w \in {"TEEN", "Teen"} -> "teen"
      [] w \in {"HOCJ", "Hocj"} -> "hocj"
      [] w \in {"SINH", "Sinh"} -> "sinh"
      [] w \in {"TRER", "Trer"} -> "trer"
      [] w \in {"NGAYF", "Ngayf"} -> "ngayf"
      [] w \in {"THANGS", "Thangs"} -> "thangs"
      [] w \in {"NAWM", "Nawm"} -> "nawm"
      [] w \in {"LUWOWNGJ", "Luwowngj"} -> "luwowngj"
      [] w \in {"GIAS", "Gias"} -> "gias"
      [] w \in {"DDANHS", "DDanhs"} -> "ddanhs"
      [] w \in {"TUOOIR", "Tuooir"} -> "tuooir"
      [] w \in {"THUWCJ", "Thuwcj"} -> "thuwcj"
      [] w \in {"DDOOJ", "DDooj"} -> "ddooj"
      [] w \in {"GIOWIS", "Giowis"} -> "giowis"
      [] w \in {"TINHS", "Tinhs"} -> "tinhs"
      [] w \in {"MAX", "Max"} -> "max"
      [] w \in {"HS", "Hs"} -> "hs"
      [] w \in {"SOOS", "Soos"} -> "soos"
      [] w \in {"NHAANJ", "Nhaanj"} -> "nhaanj"
      [] w \in {"DDINHJ", "DDinhj"} -> "ddinhj"
      [] w \in {"CHUNG", "Chung"} -> "chung"
      [] w \in {"VEEF", "Veef"} -> "veef"
      [] w \in {"KEETS", "Keets"} -> "keets"
      [] w \in {"QUAR", "Quar"} -> "quar"
      [] w \in {"PHATS", "Phats"} -> "phats"
      [] w \in {"TRIEENR", "Trieenr"} -> "trieenr"
      [] w \in {"KYX", "Kyx"} -> "kyx"
      [] w \in {"NAWNG", "Nawng"} -> "nawng"
      [] w \in {"CAAPS", "Caaps"} -> "caaps"
      [] w \in {"LEVEL", "Level"} -> "level"
      [] w \in {"GIAO", "Giao"} -> "giao"
      [] w \in {"TIEEPS", "Tieeps"} -> "tieeps"
      [] w \in {"XAX", "Xax"} -> "xax"
      [] w \in {"KHACS", "Khacs"} -> "khacs"
      [] OTHER -> w

LowerText(t) == [i \in DOMAIN t |-> LowerWord(t[i])]

\* String.prototype.split(sep)
RECURSIVE Split(_, _)
Split(t, sep) ==
    LET i == FirstIndex(t, sep)
    IN IF i = 0 THEN <<t>>
       ELSE <<SubSeq(t, 1, i - 1)>> \o Split(SubSeq(t, i + 1, Len(t)), sep)

\* /^\d{4}$/ on a date whose groups of digits are single tokens
IsYearOnly(dateString) == Len(dateString) = 1 /\ dateString[1] \in {"2019", "2020"}

\* formatDateVI
FormatDateVI(dateString) ==
    LET parts == Split(dateString, "-")
    IN IF dateString = <<>> THEN <<>>
       ELSE IF "/" \in Range(dateString) THEN dateString
       ELSE IF IsYearOnly(dateString) THEN dateString
       ELSE IF Len(parts) >= 3 /\ parts[1] # <<>> /\ parts[2] # <<>> /\ parts[3] # <<>>
            THEN parts[3] \o <<"/">> \o parts[2] \o <<"/">> \o parts[1]
       ELSE dateString

\* infoMap
InfoMap(info) ==
    LET displayDob == FormatDateVI(info.dob)
        displayEvalDate == FormatDateVI(info.evalDate)
    IN <<
       [key |-> <<"Hoj", " ", "vaf", " ", "teen", " ", "hocj", " ", "sinh">>, value |-> info.name],
       [key |-> <<"Hoj", " ", "vaf", " ", "teen", " ", "trer">>, value |-> info.name],
       [key |-> <<"Hoj", " ", "vaf", " ", "teen">>, value |-> info.name],
       [key |-> <<"Hoj", " ", "teen">>, value |-> info.name],
       [key |-> <<"Teen", " ", "trer">>, value |-> info.name],
       [key |-> <<"Ngayf", " ", "thangs", " ", "nawm", " ", "sinh">>, value |-> displayDob],
       [key |-> <<"Ngayf", " ", "sinh">>, value |-> displayDob],
       [key |-> <<"Nawm", " ", "sinh">>, value |-> displayDob],
       [key |-> <<"Ngayf", " ", "luwowngj", " ", "gias">>, value |-> displayEvalDate],
       [key |-> <<"Ngayf", " ", "ddanhs", " ", "gias">>, value |-> displayEvalDate],
       [key |-> <<"Tuooir", " ", "thuwcj">>, value |-> info.age],
       [key |-> <<"DDooj", " ", "tuooir">>, value |-> info.age],
       [key |-> <<"Tuooir">>, value |-> info.age],
       [key |-> <<"Giowis", " ", "tinhs">>, value |-> info.gender],
       [key |-> <<"Max", " ", "hocj", " ", "sinh">>, value |-> info.studentId],
       [key |-> <<"Max", " ", "HS">>, value |-> info.studentId],
       [key |-> <<"Max", " ", "soos">>, value |-> info.studentId] >>

Colons == {":", "U+FF1A"}

\* new RegExp(`^\\s*${key}\\s*[:：]`, "i").test(fullText)
LabelTest(key, fullText) ==
    LET from == 1 + SpaceRun(fullText, 1)
        to == from + Len(key)
    IN /\ LowerText(Slice(fullText, from, to - 1)) = LowerText(key)
       /\ TokenAt(fullText, to + SpaceRun(fullText, to)) \in Colons

SummaryPhrase ==
    <<"nhaanj", " ", "ddinhj", " ", "chung", " ", "veef", " ", "keets", " ", "quar">>

\* fullText.toLowerCase().includes("nhận định chung về kết quả")
IsSummary(fullText) == Includes(LowerText(fullText), SummaryPhrase)

\* match[1].trim() of /(.*?Nhận định chung về kết quả.*?[:：])(.*?)(Tuổi phát triển.*|$)/i,
\* or the default prefix
SummaryPrefix(fullText) ==
    LET at == IndexOfSub(LowerText(fullText), SummaryPhrase, 1)
        colons == {j \in (at + Len(SummaryPhrase))..Len(fullText) : fullText[j] \in Colons}
    IN IF colons = {}
       THEN <<"Nhaanj", " ", "ddinhj", " ", "chung", " ", "veef", " ", "keets", " ",
              "quar", ":">>
       ELSE Trim(SubSeq(fullText, 1, CHOOSE j \in colons : \A h \in colons : j <= h))

\* (x || 0).toFixed(1).replace('.', ',') for x given in tenths
FixedOne(tenths) == NumToText(tenths \div 10) \o <<",">> \o NumToText(tenths % 10)

\* percents[`level${l}`] || 0, in tenths
PercentOf(percents, l) == IF l \in DOMAIN percents THEN percents[l] ELSE 0

\* createRun + p.appendChild
AppendRun(d, p, text, isRed, isBold) ==
    LET r == Len(d) + 1
        rPr == <<Prop("sz", {<<"val", "26">>}), Prop("szCs", {<<"val", "26">>})>>
               \o (IF isBold THEN <<Prop("b", {})>> ELSE <<>>)
               \o (IF isRed THEN <<Prop("color", {<<"val", "FF0000">>})>> ELSE <<>>)
        d1 == CreateChild(d, p, MkNode("r", <<>>, TRUE, rPr))
    IN CreateChild(d1, r, MkNode("t", text, FALSE, <<>>))

\* levels.forEach of the summary
RECURSIVE AppendLevelRuns(_, _, _, _, _)
AppendLevelRuns(d, p, result, levels, index) ==
    IF index > Len(levels) THEN d
    ELSE LET l == levels[index]
             valNew == FixedOne(PercentOf(result.percents, l))
             d1 == AppendRun(d, p, <<"caaps", " ", "ddooj", " ">> \o NumToText(l)
                                   \o <<" ", "con", " ", "ddatj", " ">>, FALSE, FALSE)
             d2 == IF result.hasOld /\ l \in DOMAIN result.percentsOld
                   THEN AppendRun(d1, p, FixedOne(PercentOf(result.percentsOld, l))
                                         \o <<"%", " ", ">", " ">> \o valNew \o <<"%">>,
                                  TRUE, TRUE)
                   ELSE AppendRun(d1, p, valNew \o <<"%">>, TRUE, TRUE)
             d3 == IF index < Len(levels)
                   THEN AppendRun(d2, p, <<".", " ", "Vaf", " ">>, FALSE, FALSE)
                   ELSE AppendRun(d2, p, <<".">>, FALSE, FALSE)
         IN AppendLevelRuns(d3, p, result, levels, index + 1)

\* p.getElementsByTagName("w:pPr")[0]: the paragraph itself or the first
\* paragraph below it that has a pPr, 0 when none
PPrOwner(d, p) ==
    LET cands == SelectSeq(<<p>> \o GetElementsByTagName(d, p, "p"), LAMBDA x : d[x].hasPr)
    IN IF cands = <<>> THEN 0 ELSE cands[1]

\* the summary paragraph: centre it, keep the prefix, rebuild its runs (up to
\* the throw for a result without percents)
FillSummary(d, p, fullText, result, levels) ==
    LET owner == IF PPrOwner(d, p) = 0 THEN p ELSE PPrOwner(d, p)
        d1 == [d EXCEPT ![owner].hasPr = TRUE,
                        ![owner].pr = SetPropAttr(EnsureProp(@, "jc"), "jc", "val", "center")]
        \* the while loop removes every child but a pPr that is the first child
        d2 == [d1 EXCEPT ![p].kids = <<>>]
        d3 == AppendRun(d2, p, SummaryPrefix(fullText) \o <<" ">>, FALSE, TRUE)
    IN IF levels # <<>> /\ ~result.hasPercents THEN d3
       ELSE IF levels = <<>>
       THEN AppendRun(d3, p, <<" ", "Chuwa", " ", "chonj", " ", "caaps", " ", "ddooj", " ",
                               "naof", " ", "ddeer", " ", "ddanhs", " ", "gias", ".">>,
                      FALSE, FALSE)
       ELSE AppendLevelRuns(d3, p, result, levels, 1)

\* the entries of infoMap that the loop stops at: the first one with a value
\* whose pattern matches
MatchingEntries(entries, fullText) ==
    SelectSeq(entries, LAMBDA e : e.value # <<>> /\ LabelTest(e.key, fullText))

\* tNodes[0].textContent = newText; the other tNodes are emptied
SetTexts(d, tNodes, newText) ==
    [n \in DOMAIN d |->
        IF n = tNodes[1] THEN [d[n] EXCEPT !.text = newText]
        ELSE IF n \in Range(tNodes) THEN [d[n] EXCEPT !.text = <<>>]
        ELSE d[n]]

\* percents[`level${l}`] of a result without percents throws
ParagraphThrows(d, p, result, levels) ==
    /\ GetElementsByTagName(d, p, "t") # <<>>
    /\ IsSummary(ConcatText(d, GetElementsByTagName(d, p, "t")))
    /\ levels # <<>>
    /\ ~result.hasPercents

\* one iteration of paragraphs.forEach
FillParagraph(d, p, info, result, levels) ==
    LET tNodes == GetElementsByTagName(d, p, "t")
        fullText == ConcatText(d, tNodes)
        hits == MatchingEntries(InfoMap(info), fullText)
    IN IF tNodes = <<>> THEN d
       ELSE IF IsSummary(fullText) THEN FillSummary(d, p, fullText, result, levels)
       ELSE IF hits = <<>> THEN d
       ELSE SetTexts(d, tNodes, hits[1].key \o <<":", " ">> \o hits[1].value)

-----------------------------------------------------------------------------
(* smartFillXML: the table pass *)

\* str.replace(/\s+/g, ' ')
RECURSIVE CollapseSpaces(_)
CollapseSpaces(t) ==
    IF t = <<>> THEN <<>>
    ELSE IF IsSpace(Head(t)) THEN <<" ">> \o CollapseSpaces(TrimLeft(t))
    ELSE <<Head(t)>> \o CollapseSpaces(Tail(t))

\* normalize
Normalize(str) == LowerText(Trim(CollapseSpaces(str)))

\* getCellText
GetCellText(d, cell) ==
    LET ps == GetElementsByTagName(d, cell, "p")
    IN IF ps = <<>> THEN TextContent(d, cell)
       ELSE Join([i \in DOMAIN ps |-> ConcatText(d, GetElementsByTagName(d, ps[i], "t"))],
                 <<" ">>)

\* "kỹ năng"
SkillMarker == <<"kyx", " ", "nawng">>

\* /(?:cấp độ|level)\s*(\d+)/ at position i
LevelMatchAt(t, i) ==
    LET word == IF Slice(t, i, i + 2) = <<"caaps", " ", "ddooj">> THEN 3
                ELSE IF TokenAt(t, i) = "level" THEN 1
                ELSE 0
        j == i + word + SpaceRun(t, i + word)
    IN IF word > 0 /\ DigitRun(t, j) >= 1
       THEN [ok |-> TRUE, start |-> i, full |-> SubSeq(t, i, j + DigitRun(t, j) - 1),
             g1 |-> SubSeq(t, j, j + DigitRun(t, j) - 1), g2 |-> <<>>, g3 |-> <<>>]
       ELSE NoMatch

\* the key of columnMap that a header cell sets, -1 when none
LevelOfHeader(cellText) ==
    LET m == Search(cellText, 1, LevelMatchAt)
    IN IF ~m.ok THEN -1
       ELSE IF ParseInt(m.g1) < 10 THEN ParseInt(m.g1)
       ELSE DigitValue(m.g1[1])

\* columnMap[lvl] for the header cells given: the last cell c >= 1 (counted
\* from 0) whose level is lvl, -1 when lvl is not a key
ColumnOf(d, cells, lvl) ==
    LET cs == {c \in 1..(Len(cells) - 1) :
                  LevelOfHeader(Normalize(GetCellText(d, cells[c + 1]))) = lvl}
    IN IF cs = {} THEN -1 ELSE CHOOSE c \in cs : \A c2 \in cs : c2 <= c

\* columnMap, with -1 for the levels that are no key
ColumnMap(d, cells) == [lvl \in 0..9 |-> ColumnOf(d, cells, lvl)]

\* the row among the first five that makes the table a skill-result table:
\* the first one with cells whose first cell holds the marker; 0 when none
HeaderRowOf(d, rows) ==
    LET hits == {i \in 1..Min(5, Len(rows)) :
                    LET cells == GetElementsByTagName(d, rows[i], "tc")
                    IN /\ cells # <<>>
                       /\ Includes(Normalize(GetCellText(d, cells[1])), SkillMarker)}
    IN IF hits = {} THEN 0 ELSE CHOOSE i \in hits : \A j \in hits : i <= j

IsEsdmTable(d, tbl) == HeaderRowOf(d, GetElementsByTagName(d, tbl, "tr")) # 0

\* the table the loop over the tables stops at, 0 when none
EsdmTableOf(d) ==
    LET hits == SelectSeq(GetElementsByTagName(d, Root, "tbl"), LAMBDA t : IsEsdmTable(d, t))
    IN IF hits = <<>> THEN 0 ELSE hits[1]

\* width 90 % and centred
SetTableWidth(d, tbl) ==
    LET owner == IF TblPrOwner(d, tbl) = 0 THEN tbl ELSE TblPrOwner(d, tbl)
        p1 == SetPropAttr(SetPropAttr(EnsureProp(d[owner].pr, "tblW"), "tblW", "w", "4500"),
                          "tblW", "type", "pct")
    IN [d EXCEPT ![owner].hasPr = TRUE,
                 ![owner].pr = SetPropAttr(EnsureProp(p1, "jc"), "jc", "val", "center")]

\* node.textContent = "" on the nodes given
BlankNodes(d, ns) ==
    [n \in DOMAIN d |->
        IF n \in Range(ns)
        THEN [d[n] EXCEPT !.kids = <<>>, !.text = <<>>, !.hasPr = FALSE, !.pr = <<>>]
        ELSE d[n]]

\* the body of "if (levels.includes(lvl) && colIndex < cells.length)"
FillCellValue(d, cell, val) ==
    LET ps == GetElementsByTagName(d, cell, "p") IN
    IF ps # <<>>
    THEN LET p   == ps[1]
             rs0 == GetElementsByTagName(d, p, "r")
             d1  == IF rs0 = <<>> THEN CreateChild(d, p, MkNode("r", <<>>, FALSE, <<>>)) ELSE d
             r   == IF rs0 = <<>> THEN Len(d) + 1 ELSE rs0[1]
             ts0 == GetElementsByTagName(d1, r, "t")
             d2  == IF ts0 = <<>> THEN CreateChild(d1, r, MkNode("t", <<>>, FALSE, <<>>)) ELSE d1
             t   == IF ts0 = <<>> THEN Len(d1) + 1 ELSE ts0[1]
             d3  == [d2 EXCEPT ![t].text = val, ![t].kids = <<>>]
             d4  == BlankNodes(d3, Tail(ps))
         IN BlankNodes(d4, Tail(GetElementsByTagName(d4, p, "r")))
    ELSE LET p  == Len(d) + 1
             d1 == CreateChild(d, cell, MkNode("p", <<>>, FALSE, <<>>))
             d2 == CreateChild(d1, p, MkNode("r", <<>>, FALSE, <<>>))
         IN CreateChild(d2, p + 1, MkNode("t", val, FALSE, <<>>))

\* matchedSkill[`level${lvl}`], "-" when undefined
SkillValue(item, lvl) == IF lvl \in DOMAIN item.vals THEN item.vals[lvl] ELSE <<"-">>

\* the test of result.table.find
SkillMatches(item, rowTitle) ==
    LET itemSkill == Normalize(item.skill)
    IN \/ itemSkill = rowTitle
       \/ Slice(rowTitle, 1, Len(itemSkill)) = itemSkill

\* the row is not left before result.table.find
RowIsLookedUp(d, row) ==
    LET cells == GetElementsByTagName(d, row, "tc")
        rowTitle == IF cells = <<>> THEN <<>> ELSE Normalize(GetCellText(d, cells[1]))
    IN cells # <<>> /\ rowTitle # <<>> /\ ~Includes(rowTitle, SkillMarker)

\* Object.entries(columnMap) from level lvl on, for one row
RECURSIVE FillLevels(_, _, _, _, _, _)
FillLevels(d, cells, columnMap, item, levels, lvl) ==
    IF lvl > 9 THEN d
    ELSE LET colIndex == columnMap[lvl]
             d1 == IF colIndex >= 0 /\ lvl \in Range(levels) /\ colIndex < Len(cells)
                   THEN FillCellValue(d, cells[colIndex + 1], SkillValue(item, lvl))
                   ELSE d
         IN FillLevels(d1, cells, columnMap, item, levels, lvl + 1)

\* one iteration of rows.forEach
FillRow(d, row, columnMap, result, levels) ==
    LET cells == GetElementsByTagName(d, row, "tc")
        rowTitle == Normalize(GetCellText(d, cells[1]))
        matched == SelectSeq(result.table, LAMBDA item : SkillMatches(item, rowTitle))
    IN IF ~RowIsLookedUp(d, row) \/ matched = <<>> THEN d
       ELSE FillLevels(d, cells, columnMap, matched[1], levels, 0)

RECURSIVE FillRows(_, _, _, _, _, _)
FillRows(d, rows, i, columnMap, result, levels) ==
    IF i > Len(rows) THEN d
    ELSE FillRows(FillRow(d, rows[i], columnMap, result, levels), rows, i + 1, columnMap,
                  result, levels)

\* the loop over the tables, with the tree at the throw taken for the result
TablePassKeepsPartial(d, result, levels) ==
    LET tbl == EsdmTableOf(d) IN
    IF tbl = 0 THEN [doc |-> d, threw |-> FALSE]
    ELSE LET rows == GetElementsByTagName(d, tbl, "tr")
             columnMap == ColumnMap(d, GetElementsByTagName(d, rows[HeaderRowOf(d, rows)],
                                                            "tc"))
             d1 == SetTableWidth(d, tbl)
         IN IF ~result.hasTable /\ \E i \in DOMAIN rows : RowIsLookedUp(d1, rows[i])
            THEN [doc |-> d1, threw |-> FALSE]
            ELSE [doc |-> FillRows(d1, rows, 1, columnMap, result, levels), threw |-> FALSE]

\* the loop over the tables: the tree it leaves and whether it threw
TablePass(d, result, levels) ==
    LET tbl == EsdmTableOf(d) IN
    IF tbl = 0 THEN [doc |-> d, threw |-> FALSE]
    ELSE LET rows == GetElementsByTagName(d, tbl, "tr")
             columnMap == ColumnMap(d, GetElementsByTagName(d, rows[HeaderRowOf(d, rows)],
                                                            "tc"))
             d1 == SetTableWidth(d, tbl)
         IN IF ~result.hasTable /\ \E i \in DOMAIN rows : RowIsLookedUp(d1, rows[i])
            THEN [doc |-> d1, threw |-> TRUE]
            ELSE [doc |-> FillRows(d1, rows, 1, columnMap, result, levels), threw |-> FALSE]

-----------------------------------------------------------------------------
(* smartFillXML: the templates and the form data the model starts from *)

\* a run with one w:t
AddRun(d, p, text) ==
    LET r == Len(d) + 1
        d1 == CreateChild(d, p, MkNode("r", <<>>, FALSE, <<>>))
    IN CreateChild(d1, r, MkNode("t", text, FALSE, <<>>))

RECURSIVE AddRuns(_, _, _)
AddRuns(d, p, texts) ==
    IF texts = <<>> THEN d ELSE AddRuns(AddRun(d, p, Head(texts)), p, Tail(texts))

\* a run that anchors a text box with one paragraph
AddTextBox(d, p, texts) ==
    LET r == Len(d) + 1
        d1 == CreateChild(d, p, MkNode("r", <<>>, FALSE, <<>>))
        box == Len(d1) + 1
        d2 == CreateChild(d1, r, MkNode("other", <<>>, FALSE, <<>>))
        inner == Len(d2) + 1
        d3 == CreateChild(d2, box, MkNode("p", <<>>, TRUE, <<Prop("jc", {<<"val", "left">>})>>))
    IN AddRuns(d3, inner, texts)

\* a paragraph: runs, then a text box if box # <<>>, then runs
AddFillParagraph(d, par, shape) ==
    LET p == Len(d) + 1
        d1 == CreateChild(d, par, MkNode("p", <<>>, shape.hasPr, <<>>))
        d2 == AddRuns(d1, p, shape.pre)
        d3 == IF shape.box = <<>> THEN d2 ELSE AddTextBox(d2, p, shape.box)
    IN AddRuns(d3, p, shape.post)

Shape(pre, box, post) == [hasPr |-> FALSE, pre |-> pre, box |-> box, post |-> post]

Runs(texts) == Shape(texts, <<>>, <<>>)

OldValue == <<" ", "cu">>

\* the paragraph "<key>: cu" in two runs, for every key of infoMap
AllInfo == [name |-> <<"x">>, dob |-> <<"x">>, evalDate |-> <<"x">>, age |-> <<"x">>,
            gender |-> <<"x">>, studentId |-> <<"x">>]

LabelShapes ==
    {Runs(<<InfoMap(AllInfo)[k].key, <<":">> \o OldValue>>) : k \in DOMAIN InfoMap(AllInfo)}

HoVaTen == <<"Hoj", " ", "vaf", " ", "teen">>

\* the label "Hoj vaf teen" in three casings, with and without blanks before
\* it and before the colon, with either colon or none, in one to three runs
VariantShapes ==
    { LET lead == IF v.lead THEN <<" ", " ">> ELSE <<>>
          gap == IF v.gap THEN <<" ">> ELSE <<>>
          colon == IF v.colon = "none" THEN <<>> ELSE <<v.colon>>
          rest == gap \o colon \o OldValue
      IN Runs(IF v.runs = 1 THEN <<lead \o v.label \o rest>>
              ELSE IF v.runs = 2 THEN <<lead \o v.label, rest>>
              ELSE <<lead \o <<Head(v.label)>>, Tail(v.label), rest>>) :
      v \in [label : {HoVaTen, LowerText(HoVaTen), <<"HOJ", " ", "VAF", " ", "TEEN">>},
             lead : BOOLEAN, gap : BOOLEAN, colon : Colons \cup {"none"}, runs : 1..3] }

BirthLine == <<"Ngayf", " ", "sinh", ":">> \o OldValue

SpecialShapes ==
    { \* a paragraph without text nodes
      Runs(<<>>),
      \* no label
      Runs(<<<<"x", ":">> \o OldValue>>),
      \* a label that is not at the start
      Runs(<<<<"x", " ", "Hoj", " ", "teen", ":">> \o OldValue>>),
      \* a label without its marks
      Runs(<<<<"Ho", " ", "va", " ", "ten", ":">> \o OldValue>>),
      \* two blanks inside the label
      Runs(<<<<"Hoj", " ", " ", "teen", ":">> \o OldValue>>),
      \* a text box with a label paragraph anchored after the text
      Shape(<<HoVaTen \o <<":">>, OldValue>>, <<BirthLine>>, <<>>),
      \* a text box with a label paragraph anchored before the text
      Shape(<<>>, <<BirthLine>>, <<HoVaTen \o <<":">>, OldValue>>),
      \* a text box with a label paragraph anchored in a paragraph without label
      Shape(<<<<"x">>>>, <<BirthLine>>, <<>>) }

SummaryLine == <<"Nhaanj", " ", "ddinhj", " ", "chung", " ", "veef", " ", "keets", " ", "quar">>

SummaryShapes ==
    { Runs(<<SummaryLine \o <<":">>, OldValue>>),
      Runs(<<<<"NHAANJ", " ", "DDINHJ", " ", "CHUNG", " ", "VEEF", " ", "KEETS", " ", "QUAR">>
             \o OldValue>>),
      [Runs(<<<<"Hoj", " ", "teen", ":", " ">>, SummaryLine, <<" ", "U+FF1A">> \o OldValue>>)
         EXCEPT !.hasPr = TRUE],
      Shape(<<SummaryLine \o <<":">>>>, <<BirthLine>>, <<>>) }

\* body: the paragraph of the given shape, then a birth-date paragraph
FillTemplate(shape) ==
    LET d0 == <<MkNode("body", <<>>, FALSE, <<>>)>>
        d1 == AddFillParagraph(d0, Root, shape)
    IN AddFillParagraph(d1, Root, Runs(<<<<" ", "NGAYF", " ", "SINH", " ", ":">>, OldValue>>))

FullInfo ==
    [name |-> <<"Nguyeenx", " ", "Vawn", " ", "A">>,
     dob |-> <<"2020", "-", "01", "-", "15">>,
     evalDate |-> <<"15", "/", "01", "/", "2024">>,
     age |-> <<"4">>, gender |-> <<"Nam">>, studentId |-> <<"HS01">>]

FillInfos ==
    { FullInfo,
      [FullInfo EXCEPT !.name = <<>>],
      [FullInfo EXCEPT !.dob = <<"2020">>, !.age = <<>>],
      [FullInfo EXCEPT !.dob = <<>>, !.evalDate = <<"2024", "-", "01">>, !.studentId = <<>>],
      [FullInfo EXCEPT !.name = <<" ">>, !.dob = <<"2020", "-", "01", "-", "15", "-", "x">>,
                       !.evalDate = <<>>, !.gender = <<>>] }

\* result.table: an entry matched by name, one that an earlier entry is a
\* prefix of, one whose name holds the marker and that has no value for
\* level 2
SkillTable ==
    << [skill |-> <<"Giao", " ", "tieeps">>,
        vals |-> (1 :> <<"3", "/", "5">> @@ 2 :> <<"4", "/", "5">>)],
       [skill |-> <<"Giao", " ", "tieeps", " ", "x">>,
        vals |-> (1 :> <<"0", "/", "5">> @@ 2 :> <<"0", "/", "5">>)],
       [skill |-> <<"Kyx", " ", "nawng", " ", "xax", " ", "hooij">>,
        vals |-> (1 :> <<"1", "/", "5">>)] >>

NewOnly == [percents |-> (1 :> 505 @@ 2 :> 1000), hasOld |-> FALSE, percentsOld |-> <<>>,
            hasPercents |-> TRUE, hasTable |-> TRUE, table |-> SkillTable]

OldAndNew == [percents |-> (1 :> 505), hasOld |-> TRUE, percentsOld |-> (1 :> 333 @@ 2 :> 0),
              hasPercents |-> TRUE, hasTable |-> TRUE, table |-> SkillTable]

\* results of a response that lacks a key
NoTableKey == [NewOnly EXCEPT !.hasTable = FALSE, !.table = <<>>]

NoPercentsKey == [NewOnly EXCEPT !.hasPercents = FALSE, !.percents = <<>>]

LevelChoices == {<<>>, <<1>>, <<1, 2>>}

\* a cell is a sequence of paragraphs, a paragraph a sequence of run texts
RECURSIVE AddCellParagraphs(_, _, _)
AddCellParagraphs(d, cell, paras) ==
    IF paras = <<>> THEN d
    ELSE LET d1 == AddFillParagraph(d, cell, Runs(Head(paras)))
         IN IF Len(d1) > 0 THEN AddCellParagraphs(d1, cell, Tail(paras)) ELSE d1

RECURSIVE AddFillCells(_, _, _)
AddFillCells(d, row, cells) ==
    IF cells = <<>> THEN d
    ELSE LET d1 == CreateChild(d, row, MkNode("tc", <<>>, FALSE, <<>>))
             d2 == AddCellParagraphs(d1, Len(d) + 1, Head(cells))
         IN IF Len(d2) > 0 THEN AddFillCells(d2, row, Tail(cells)) ELSE d2

RECURSIVE AddFillRows(_, _, _)
AddFillRows(d, tbl, rows) ==
    IF rows = <<>> THEN d
    ELSE LET d1 == CreateChild(d, tbl, MkNode("tr", <<>>, FALSE, <<>>))
             d2 == AddFillCells(d1, Len(d) + 1, Head(rows))
         IN IF Len(d2) > 0 THEN AddFillRows(d2, tbl, Tail(rows)) ELSE d2

RECURSIVE AddFillTables(_, _)
AddFillTables(d, tbls) ==
    IF tbls = <<>> THEN d
    ELSE LET d1 == CreateChild(d, Root, MkNode("tbl", <<>>, FALSE, <<>>))
             d2 == AddFillRows(d1, Len(d) + 1, Head(tbls))
         IN IF Len(d2) > 0 THEN AddFillTables(d2, Tail(tbls)) ELSE d2

\* a cell with one paragraph with one run
OneRun(text) == << <<text>> >>

HdrSkill == OneRun(<<"Kyx", " ", "nawng">>)
HdrLevel1 == OneRun(<<"Caaps", " ", "ddooj", " ", "1">>)
HdrLevel2 == OneRun(<<"LEVEL", "2">>)
HdrLevel12 == OneRun(<<"Caaps", " ", " ", "DDOOJ", " ", "1", "2">>)
HeaderCells == <<HdrSkill, HdrLevel1, HdrLevel2>>

OldCell == OneRun(<<"cu">>)
\* two paragraphs, the first with two runs
FullCell == << <<<<"cu">>, <<"a">>>>, <<<<"b">>>> >>
\* no paragraph; a paragraph without run
BareCell == <<>>
BarePara == << <<>> >>

GiaoTiep == OneRun(<<" ", "GIAO", " ", " ", "tieeps">>)
GiaoTiepX == OneRun(<<"Giao", " ", "tieeps", " ", "x">>)
XaHoi == OneRun(<<"Kyx", " ", "nawng", " ", "xax", " ", "hooij">>)
Khac == OneRun(<<"Khacs">>)
LabelCell == << <<HoVaTen \o <<":">>, OldValue>> >>

PlainTable ==
    << HeaderCells, <<GiaoTiep, OldCell, FullCell>>, <<GiaoTiepX, BareCell, BarePara>>,
       <<Khac, OldCell, OldCell>>, <<GiaoTiep, OldCell>> >>

MarkerRowTable == << HeaderCells, <<XaHoi, OldCell, OldCell>>, <<GiaoTiep, OldCell, OldCell>> >>

TwoDigitTable == << <<HdrSkill, HdrLevel12, HdrLevel2>>, <<GiaoTiep, OldCell, OldCell>> >>

TwiceLevelTable == << <<HdrSkill, HdrLevel1, HdrLevel1>>, <<GiaoTiep, OldCell, FullCell>> >>

TitleFirstTable == << <<Khac>>, HeaderCells, <<GiaoTiep, OldCell, OldCell>> >>

LateHeaderTable ==
    << <<Khac, OldCell>>, <<Khac, OldCell>>, <<Khac, OldCell>>, <<Khac, OldCell>>,
       <<Khac, OldCell>>, HeaderCells, <<GiaoTiep, OldCell, OldCell>> >>

GenericTable == << <<LabelCell, OldCell>>, <<GiaoTiep, OldCell, OldCell>> >>

TableShapes ==
    { <<PlainTable>>, <<MarkerRowTable>>, <<TwoDigitTable>>, <<TwiceLevelTable>>,
      <<TitleFirstTable>>, <<LateHeaderTable>>, <<GenericTable>>,
      <<GenericTable, PlainTable>>, <<TitleFirstTable, MarkerRowTable>> }

\* body: a label paragraph, then the tables
TableTemplate(tbls) ==
    LET d0 == <<MkNode("body", <<>>, FALSE, <<>>)>>
        d1 == AddFillParagraph(d0, Root, Runs(<<HoVaTen \o <<":">>, OldValue>>))
    IN AddFillTables(d1, tbls)

-----------------------------------------------------------------------------
(* smartFillXML: the flow *)

\* the document is parsed and the paragraphs are collected
FillStart ==
    /\ fillPc = "loaded"
    /\ fillDoc' = fillXml
    /\ paragraphs' = GetElementsByTagName(fillXml, Root, "p")
    /\ fillPos' = 1
    /\ fillPc' = IF paragraphs' = <<>> THEN "tables" ELSE "paragraphs"
    /\ UNCHANGED <<fillXml, studentInfo, esdmResult, selectedLevels, fillOut>>
    /\ UNCHANGED nonFillVars

\* one iteration of paragraphs.forEach; the table pass follows the last
\* one, the catch block an iteration that throws
FillStep ==
    /\ fillPc = "paragraphs"
    /\ fillDoc' = FillParagraph(fillDoc, paragraphs[fillPos], studentInfo, esdmResult,
                                selectedLevels)
    /\ fillPos' = fillPos + 1
    /\ IF ParagraphThrows(fillDoc, paragraphs[fillPos], esdmResult, selectedLevels)
       THEN /\ fillPc' = "done"
            /\ fillOut' = fillXml
       ELSE /\ fillPc' = IF fillPos = Len(paragraphs) THEN "tables" ELSE "paragraphs"
            /\ fillOut' = fillOut
    /\ UNCHANGED <<fillXml, studentInfo, esdmResult, selectedLevels, paragraphs>>
    /\ UNCHANGED nonFillVars

\* the table pass and the return: the serialized tree, or the xml given when
\* the pass threw
FillTables ==
    /\ fillPc = "tables"
    /\ LET r == TablePass(fillDoc, esdmResult, selectedLevels)
       IN /\ fillDoc' = r.doc
          /\ fillOut' = IF r.threw THEN fillXml ELSE r.doc
    /\ fillPc' = "done"
    /\ UNCHANGED <<fillXml, studentInfo, esdmResult, selectedLevels, paragraphs, fillPos>>
    /\ UNCHANGED nonFillVars

FillInit ==
    /\ \/ /\ fillXml \in {FillTemplate(shape) : shape \in LabelShapes}
          /\ studentInfo \in FillInfos
          /\ esdmResult = NewOnly
          /\ selectedLevels = <<1>>
       \/ /\ fillXml \in {FillTemplate(shape) : shape \in VariantShapes \cup SpecialShapes}
          /\ studentInfo = FullInfo
          /\ esdmResult = NewOnly
          /\ selectedLevels = <<1>>
       \/ /\ fillXml \in {FillTemplate(shape) : shape \in SummaryShapes}
          /\ studentInfo = FullInfo
          /\ esdmResult \in {NewOnly, OldAndNew, NoPercentsKey}
          /\ selectedLevels \in LevelChoices
       \/ /\ fillXml \in {TableTemplate(tbls) : tbls \in TableShapes}
          /\ studentInfo = FullInfo
          /\ esdmResult \in {NewOnly, NoTableKey}
          /\ selectedLevels \in LevelChoices
    /\ fillDoc = <<>>
    /\ paragraphs = <<>>
    /\ fillPos = 1
    /\ fillPc = "loaded"
    /\ fillOut = <<>>
    /\ FixIdle
    /\ IepIdle
    /\ AnalyzeIdle

FillNext ==
    \/ FillStart
    \/ FillStep
    \/ FillTables

SpecFill == FillInit /\ [][FillNext]_vars

-----------------------------------------------------------------------------
(* Properties of smartFillXML *)

\* the text begins, after optional blanks and whatever the case, with the
\* label followed by a colon
BeginsWithLabel(key, text) ==
    \E lead \in 0..Len(text) :
        /\ \A i \in 1..lead : IsSpace(text[i])
        /\ LowerText(Slice(text, lead + 1, lead + Len(key))) = LowerText(key)
        /\ TokenAt(text, lead + Len(key) + 1) \in Colons

\* the text nodes of a paragraph of the template, in order
TemplateRuns(p) == GetElementsByTagName(fillXml, p, "t")

\* the paragraph has been rewritten to "<label>: <value>" in its first run
RewrittenTo(p, entry) ==
    LET runs == TemplateRuns(p)
    IN /\ fillDoc[runs[1]].text = entry.key \o <<":", " ">> \o entry.value
       /\ \A i \in 2..Len(runs) : fillDoc[runs[i]].text = <<>>

\* C9 (label rewrite): after the label-value pass, every paragraph of the
\* template, other than the summary paragraph, whose concatenated run text
\* begins (after optional blanks, whatever the case) with a label of the list
\* followed by a colon, and whose mapped value is not empty, has "<label>:
\* <value>" as the text of its first run, for the first such label of the
\* list, and empty text in its other runs.
C9_LabelRewrite ==
    fillPc = "tables" =>
        \A p \in Range(GetElementsByTagName(fillXml, Root, "p")) :
            LET text == ConcatText(fillXml, TemplateRuns(p))
                entries == InfoMap(studentInfo)
                hits == SelectSeq(entries, LAMBDA e : BeginsWithLabel(e.key, text))
            IN (TemplateRuns(p) # <<>> /\ ~IsSummary(text) /\ hits # <<>>
                /\ hits[1].value # <<>>)
               => RewrittenTo(p, hits[1])

\* the paragraphs of the template, in document order
TemplateParagraphs == GetElementsByTagName(fillXml, Root, "p")

\* the entry of the list that the label-value pass applies to a paragraph of
\* the template: the first one whose label the text begins with, if it has a
\* value; <<>> when none
LabelOf(p) ==
    LET text == ConcatText(fillXml, TemplateRuns(p))
        hits == SelectSeq(InfoMap(studentInfo), LAMBDA e : BeginsWithLabel(e.key, text))
    IN IF TemplateRuns(p) = <<>> \/ IsSummary(text) \/ hits = <<>> THEN <<>>
       ELSE IF hits[1].value = <<>> THEN <<>>
       ELSE <<hits[1]>>

\* the text nodes of the paragraph are as in the template
TextUnchanged(p) ==
    \A t \in Range(TemplateRuns(p)) : fillDoc[t].text = fillXml[t].text

\* C22 (label matching stops at the first paragraph): after the label-value
\* pass, of the paragraphs that match the same label only the first in
\* document order is rewritten; every later one is as in the template.
C22_FirstParagraphOnly ==
    fillPc = "tables" =>
        \A i \in DOMAIN TemplateParagraphs, j \in DOMAIN TemplateParagraphs :
            (i < j /\ LabelOf(TemplateParagraphs[i]) # <<>>
             /\ LabelOf(TemplateParagraphs[j]) = LabelOf(TemplateParagraphs[i]))
            => TextUnchanged(TemplateParagraphs[j])

\* the cell ends with val as the text of the first run of its first
\* paragraph and without text in its other paragraphs and runs
CellHolds(d, cell, val) ==
    LET ps == GetElementsByTagName(d, cell, "p")
        rs == IF ps = <<>> THEN <<>> ELSE GetElementsByTagName(d, ps[1], "r")
    IN /\ ps # <<>>
       /\ rs # <<>>
       /\ TextContent(d, rs[1]) = val
       /\ \A k \in 2..Len(ps) : TextContent(d, ps[k]) = <<>>
       /\ \A k \in 2..Len(rs) : TextContent(d, rs[k]) = <<>>

\* the rows named are filled: for every selected level with a column, the
\* cell of the row in that column holds the value of the first entry whose
\* name is, or begins, the title of the row
RowsFilled(withMarker) ==
    (fillPc = "done" /\ esdmResult.hasTable /\ EsdmTableOf(fillXml) # 0) =>
        LET rows == GetElementsByTagName(fillXml, EsdmTableOf(fillXml), "tr")
            hdr == HeaderRowOf(fillXml, rows)
            columnMap == ColumnMap(fillXml, GetElementsByTagName(fillXml, rows[hdr], "tc"))
        IN \A i \in DOMAIN rows \ {hdr} :
              LET cells == GetElementsByTagName(fillXml, rows[i], "tc")
                  title == Normalize(GetCellText(fillXml, cells[1]))
                  found == SelectSeq(esdmResult.table, LAMBDA e : SkillMatches(e, title))
              IN (title # <<>> /\ found # <<>>
                  /\ (withMarker \/ ~Includes(title, SkillMarker)))
                 => \A lvl \in Range(selectedLevels) :
                       (columnMap[lvl] >= 0 /\ columnMap[lvl] < Len(cells)
                        /\ lvl \in DOMAIN found[1].vals)
                       => CellHolds(fillOut, cells[columnMap[lvl] + 1], found[1].vals[lvl])

\* C23 (skill-result-row pass): in every row of the skill-result table other
\* than the header row whose normalized first-cell text is, or begins with,
\* the normalized skill name of a result entry, every selected level with a
\* column in the column map has the entry's value as the text of the first
\* run of the first paragraph of the cell in that column, and the other
\* paragraphs and runs of the cell are without text.
C23_SkillRows == RowsFilled(TRUE)

\* the run is bold and coloured
BoldColoured(d, r) ==
    /\ d[r].kind = "r"
    /\ PropIndex(d[r].pr, "b") # 0
    /\ PropIndex(d[r].pr, "color") # 0

\* the runs of the rebuilt summary paragraphs show, for the k-th selected
\* level, "<old>% arrow <new>%" when the result has an old percentage for
\* the level and "<new>%" when not, in one bold, coloured run
SummaryFormat(arrow) ==
    (fillPc = "tables" /\ esdmResult.hasPercents) =>
        \A p \in Range(TemplateParagraphs) :
            (TemplateRuns(p) # <<>> /\ IsSummary(ConcatText(fillXml, TemplateRuns(p))))
            => \A k \in DOMAIN selectedLevels :
                  LET l == selectedLevels[k]
                      r == fillDoc[p].kids[3 * k]
                      new == FixedOne(PercentOf(esdmResult.percents, l)) \o <<"%">>
                      old == FixedOne(PercentOf(esdmResult.percentsOld, l)) \o <<"%">>
                  IN /\ Len(fillDoc[p].kids) = 1 + 3 * Len(selectedLevels)
                     /\ BoldColoured(fillDoc, r)
                     /\ TextContent(fillDoc, r) =
                           IF esdmResult.hasOld /\ l \in DOMAIN esdmResult.percentsOld
                           THEN old \o <<" ", arrow, " ">> \o new
                           ELSE new

\* C24 (summary comparison format): in the rebuilt summary paragraph the
\* value of a selected level is one bold, coloured run with the text
\* "<old>% => <new>%" when the result carries an old percentage for the
\* level, and "<new>%" when it does not.
C24_SummaryFormat == SummaryFormat("=>")

\* the tables of the template that are not skill-result tables
GenericTables ==
    {t \in Range(GetElementsByTagName(fillXml, Root, "tbl")) : ~IsEsdmTable(fillXml, t)}

\* C25 (generic tables are untouched): a table none of whose first five
\* rows has a first cell with the marker keeps every node inside it as it
\* is in the template, through all passes.
C25_GenericUntouched ==
    fillDoc # <<>> =>
        \A t \in GenericTables :
            \A n \in {t} \cup Range(Descendants(fillXml, t)) : fillDoc[n] = fillXml[n]

\* the result lacks a key that the passes read for this template
ResultKeyMissing ==
    \/ /\ ~esdmResult.hasPercents
       /\ selectedLevels # <<>>
       /\ \E p \in Range(TemplateParagraphs) :
             TemplateRuns(p) # <<>> /\ IsSummary(ConcatText(fillXml, TemplateRuns(p)))
    \/ /\ ~esdmResult.hasTable
       /\ EsdmTableOf(fillXml) # 0
       /\ \E row \in Range(GetElementsByTagName(fillXml, EsdmTableOf(fillXml), "tr")) :
             LET cells == GetElementsByTagName(fillXml, row, "tc")
                 title == IF cells = <<>> THEN <<>>
                          ELSE Normalize(GetCellText(fillXml, cells[1]))
             IN title # <<>> /\ ~Includes(title, SkillMarker)

\* C27 (the field filler is all-or-nothing): smartFillXML returns nothing
\* before it ends; what it returns is the template as given when a pass
\* threw, and otherwise the tree after all paragraphs and the table pass
\* have been worked through; a tree left half-way is never returned.
C27_AllOrNothing ==
    /\ fillPc # "done" => fillOut = <<>>
    /\ fillPc = "done" =>
          /\ fillOut \in {fillXml, fillDoc}
          /\ ResultKeyMissing => fillOut = fillXml
          /\ ~ResultKeyMissing => (fillOut = fillDoc /\ fillPos = Len(paragraphs) + 1)

\* C27 witness: the table pass threw after the label pass and the width
\* step had changed the tree, and the template came back as given
C27_Witness ==
    /\ fillPc = "done"
    /\ ~esdmResult.hasTable
    /\ fillPos = Len(paragraphs) + 1
    /\ fillDoc # fillXml
    /\ fillOut = fillXml

-----------------------------------------------------------------------------
(* Mode 1 handlers: toggleColumn, handleAnalyze and the ANALYZE file loop *)

MaxFiles == 4       \* files uploaded for one analysis

MaxColumn == 9      \* assessment columns offered by the UI

TimerCap == 90      \* the value the interval timer never goes beyond

IngestShare == 30   \* the share of the bar given to the file loop

Complete == 100     \* the value set when ANALYZE has returned

\* the largest whole number of Math.random() * 2 added by one tick, after
\* rounding
MaxTickGain == 2

\* sort((a, b) => a - b) on a list of numbers
RECURSIVE SortAscending(_)
SortAscending(s) ==
    IF Len(s) <= 1 THEN s
    ELSE LET least == CHOOSE i \in DOMAIN s :
                         /\ \A j \in DOMAIN s : s[i] <= s[j]
                         /\ \A j \in 1..(i - 1) : s[j] # s[i]
         IN <<s[least]>> \o SortAscending([k \in 1..(Len(s) - 1) |->
                                             IF k < least THEN s[k] ELSE s[k + 1]])

\* the updater of toggleColumn with the pair left in the order of arrival
ToggledUnsorted(prev, col) ==
    IF \E i \in DOMAIN prev : prev[i] = col
    THEN LET newVal == SelectSeq(prev, LAMBDA c : c # col)
         IN IF Len(newVal) = 0 THEN <<1>> ELSE newVal
    ELSE IF Len(prev) >= 2
         THEN <<prev[2], col>>
         ELSE Append(prev, col)

\* the updater that toggleColumn hands to setSelectedColumns
ToggledColumns(prev, col) ==
    IF \E i \in DOMAIN prev : prev[i] = col
    THEN LET newVal == SelectSeq(prev, LAMBDA c : c # col)
         IN IF Len(newVal) = 0 THEN <<1>> ELSE SortAscending(newVal)
    ELSE IF Len(prev) >= 2
         THEN SortAscending(<<prev[2], col>>)
         ELSE SortAscending(Append(prev, col))

\* ANALYZE: sortedCols and isComparison
SortedCols == SortAscending(selectedColumns)

IsComparison == Len(SortedCols) > 1

\* Math.round(((i + 1) / totalFiles) * 30) once done files are through
IngestProgress(done, totalFiles) ==
    (2 * IngestShare * done + totalFiles) \div (2 * totalFiles)

\* the updater of the interval timer: prev + Math.random() * 2, held at 90,
\* rounded; gain is the whole number the rounding adds to prev
TickProgress(prev, gain) ==
    IF prev + gain > TimerCap THEN TimerCap ELSE prev + gain

\* toggleColumn
ToggleColumn(col) ==
    /\ selectedColumns' = ToggledColumns(selectedColumns, col)
    /\ UNCHANGED <<files, status, loadingProgress, progressInterval, ingested, analyzePc>>
    /\ UNCHANGED nonAnalyzeVars

\* handleAnalyze up to its first await; the button is disabled while LOADING
HandleAnalyze ==
    /\ analyzePc = "idle"
    /\ status # "LOADING"
    /\ Len(files) # 0
    /\ Len(selectedColumns) # 0
    /\ status' = "LOADING"
    /\ loadingProgress' = 0
    /\ progressInterval' = TRUE
    /\ ingested' = 0
    /\ analyzePc' = "ingest"
    /\ UNCHANGED <<files, selectedColumns>>
    /\ UNCHANGED nonAnalyzeVars

\* one callback of the interval timer
ProgressTick(gain) ==
    /\ progressInterval
    /\ loadingProgress' = TickProgress(loadingProgress, gain)
    /\ UNCHANGED <<files, selectedColumns, status, progressInterval, ingested, analyzePc>>
    /\ UNCHANGED nonAnalyzeVars

\* ANALYZE: one round of the file loop, ending with onProgress
IngestFile ==
    /\ analyzePc = "ingest"
    /\ ingested < Len(files)
    /\ ingested' = ingested + 1
    /\ loadingProgress' = IngestProgress(ingested + 1, Len(files))
    /\ analyzePc' = IF ingested + 1 = Len(files) THEN "generate" ELSE "ingest"
    /\ UNCHANGED <<files, selectedColumns, status, progressInterval>>
    /\ UNCHANGED nonAnalyzeVars

\* handleAnalyze after main_controller has returned
AnalyzeReturns ==
    /\ analyzePc = "generate"
    /\ progressInterval' = FALSE
    /\ loadingProgress' = Complete
    /\ analyzePc' = "settle"
    /\ UNCHANGED <<files, selectedColumns, status, ingested>>
    /\ UNCHANGED nonAnalyzeVars

\* handleAnalyze: the catch, after a file or the service call has thrown
AnalyzeThrows ==
    /\ analyzePc \in {"ingest", "generate"}
    /\ progressInterval' = FALSE
    /\ loadingProgress' = 0
    /\ status' = "ERROR"
    /\ analyzePc' = "idle"
    /\ UNCHANGED <<files, selectedColumns, ingested>>
    /\ UNCHANGED nonAnalyzeVars

\* handleAnalyze: the setTimeout callback; hasResult is whether the parsed
\* answer of the service is a value that counts as true
ShowResult(hasResult) ==
    /\ analyzePc = "settle"
    /\ status' = IF hasResult THEN "SUCCESS" ELSE status
    /\ analyzePc' = "idle"
    /\ UNCHANGED <<files, selectedColumns, loadingProgress, progressInterval, ingested>>
    /\ UNCHANGED nonAnalyzeVars

AnalyzeInit ==
    /\ files \in {[i \in 1..n |-> "file"] : n \in 1..MaxFiles}
    /\ selectedColumns = <<1>>
    /\ status = "IDLE"
    /\ loadingProgress = 0
    /\ progressInterval = FALSE
    /\ ingested = 0
    /\ analyzePc = "idle"
    /\ FixIdle
    /\ IepIdle
    /\ FillIdle

AnalyzeNext ==
    \/ \E col \in 1..MaxColumn : ToggleColumn(col)
    \/ HandleAnalyze
    \/ \E gain \in 0..MaxTickGain : ProgressTick(gain)
    \/ IngestFile
    \/ AnalyzeReturns
    \/ AnalyzeThrows
    \/ \E hasResult \in BOOLEAN : ShowResult(hasResult)

SpecAnalyze == AnalyzeInit /\ [][AnalyzeNext]_vars

-----------------------------------------------------------------------------
(* Properties of the mode 1 handlers *)

\* C29 (column selection invariant): from <<1>>, after any toggleColumn
\* calls with columns 1..9, the list of selected columns has one or two
\* entries, all of them columns 1..9, in strictly ascending order (so without
\* duplicates); the list the ANALYZE prompt is built from is that same list.
C29_ColumnSelection ==
    /\ Len(selectedColumns) \in {1, 2}
    /\ \A i \in DOMAIN selectedColumns : selectedColumns[i] \in 1..MaxColumn
    /\ \A i \in DOMAIN selectedColumns, j \in DOMAIN selectedColumns :
          i < j => selectedColumns[i] < selectedColumns[j]
    /\ SortedCols = selectedColumns

\* C29 witness: two columns selected, column 1 no longer among them, while
\* an analysis is running
C29_Witness ==
    /\ selectedColumns = <<5, 9>>
    /\ IsComparison
    /\ status = "LOADING"

\* an analysis is running: ANALYZE is in its file loop or waits for the
\* service
Running == status = "LOADING" /\ analyzePc \in {"ingest", "generate"}

\* C30 (displayed progress under interleaving): under every interleaving of
\* timer ticks and onProgress callbacks, loadingProgress stays within 0..100
\* and does not decrease while the analysis is running; when the analysis
\* ends it becomes 100 (success) or 0 with status ERROR, and the timer is
\* stopped.
C30_ProgressInterleaving ==
    /\ [](loadingProgress \in 0..Complete)
    /\ [][(Running /\ Running') => loadingProgress' >= loadingProgress]_vars
    /\ [][(Running /\ ~Running') =>
            /\ ~progressInterval'
            /\ \/ loadingProgress' = Complete /\ status' = "LOADING"
               \/ loadingProgress' = 0 /\ status' = "ERROR"]_vars

====
